---- MODULE Spec2Model ----
(***************************************************************************)
(* go-eapaka: EAP-AKA / EAP-AKA' packet and attribute codec, MAC engine    *)
(* and MPPE key encryptor, modelled as state machines over byte sequences. *)
(*                                                                         *)
(* A byte is an integer in 0..255, a []byte is a sequence of bytes (Go     *)
(* index i is TLA+ index i+1), a Go string is the sequence of its bytes.   *)
(* A nil slice and an empty slice are both the empty sequence.             *)
(* Every fallible call returns a record whose field kind is "ok", "err"    *)
(* (a returned error) or "panic" (a run-time panic of the Go program).     *)
(***************************************************************************)
EXTENDS Integers, Sequences, FiniteSets, TLC

VARIABLES
    pkt,      \* the *Packet the caller holds (types.go / packet.go Packet)
    buf,      \* the []byte the caller holds (input of Parse, output of Marshal)
    last,     \* the call that ran last: its name, key argument and return values
    prev,     \* the call that ran before it
    old,      \* the Packet as it was when the last call started
    attr,     \* attribute codec: the Attribute under test
    enc,      \* attribute codec: result of attr.Marshal()
    dec,      \* attribute codec: result of Unmarshal on the value part of enc
    mppe,     \* MPPE encryptor: arguments, random source outcome and result
    kdf,      \* key derivation: the function called, its arguments and result
    thr,      \* concurrent callers of one Packet: each one's call, position and locals
    lock      \* the callers' mutex on the Packet: whether they use it, and its holder

vars == <<pkt, buf, last, prev, old, attr, enc, dec, mppe, kdf, thr, lock>>

(***************************************************************************)
(* Bytes and slices                                                        *)
(***************************************************************************)
Zeros(n) == [i \in 1..n |-> 0]

\* bytes filled with a recognisable non-zero pattern
Pattern(n, seed) == [i \in 1..n |-> ((seed + i * 7) % 255) + 1]

\* Go copy(dst, src): overwrites the first min(len) elements of dst
Copy(dst, src) ==
    [i \in 1..Len(dst) |-> IF i <= Len(src) THEN src[i] ELSE dst[i]]

\* Go s[lo:hi] (0-based, hi exclusive); callers guard the bounds as the code does
Slice(s, lo, hi) == SubSeq(s, lo + 1, hi)

\* binary.BigEndian.PutUint16 of uint16(v)
PutUint16(v) == << ((v % 65536) \div 256), (v % 256) >>

\* binary.BigEndian.Uint16(b[off:off+2])
Uint16(b, off) == b[off + 1] * 256 + b[off + 2]

Ok(b) == [kind |-> "ok", bytes |-> b]
Err == [kind |-> "err", bytes |-> << >>]
Panic == [kind |-> "panic", bytes |-> << >>]

DecOk(a) == [kind |-> "ok", attr |-> a]
DecErr == [kind |-> "err", attr |-> [kind |-> "nil"]]

(***************************************************************************)
(* Attribute type codes (types.go)                                         *)
(***************************************************************************)
AT_RAND == 1
AT_AUTN == 2
AT_RES == 3
AT_AUTS == 4
AT_PADDING == 6
AT_NONCE_MT == 7
AT_PERMANENT_ID_REQ == 10
AT_MAC == 11
AT_NOTIFICATION == 12
AT_ANY_ID_REQ == 13
AT_IDENTITY == 14
AT_VERSION_LIST == 15
AT_SELECTED_VERSION == 16
AT_FULLAUTH_ID_REQ == 17
AT_COUNTER == 19
AT_COUNTER_TOO_SMALL == 20
AT_NONCE_S == 21
AT_CLIENT_ERROR_CODE == 22
AT_KDF_INPUT == 23
AT_KDF == 24
AT_IV == 129
AT_ENCR_DATA == 130
AT_NEXT_PSEUDONYM == 132
AT_NEXT_REAUTH_ID == 133
AT_CHECKCODE == 134
AT_RESULT_IND == 135
AT_BIDDING == 136

CodeRequest == 1
CodeResponse == 2
CodeSuccess == 3
CodeFailure == 4
TypeAKA == 23
TypeAKAPrime == 50

KnownTypes ==
    { AT_RAND, AT_AUTN, AT_RES, AT_AUTS, AT_PADDING, AT_NONCE_MT,
      AT_PERMANENT_ID_REQ, AT_MAC, AT_NOTIFICATION, AT_ANY_ID_REQ,
      AT_IDENTITY, AT_VERSION_LIST, AT_SELECTED_VERSION, AT_FULLAUTH_ID_REQ,
      AT_COUNTER, AT_COUNTER_TOO_SMALL, AT_NONCE_S, AT_CLIENT_ERROR_CODE,
      AT_KDF_INPUT, AT_KDF, AT_IV, AT_ENCR_DATA, AT_NEXT_PSEUDONYM,
      AT_NEXT_REAUTH_ID, AT_CHECKCODE, AT_RESULT_IND, AT_BIDDING }

(***************************************************************************)
(* marshalAttribute: Type | LengthWords | Value | zero padding             *)
(***************************************************************************)
\* a faulty variant: pads to the 4-byte boundary but counts the unpadded length
marshalAttribute_NoPadCount(t, data) ==
    LET unpadded == 2 + Len(data)
        padding == IF unpadded % 4 # 0 THEN 4 - (unpadded % 4) ELSE 0
    IN  IF unpadded > 255 * 4
        THEN Err
        ELSE Ok(<< t % 256, (unpadded \div 4) % 256 >> \o data \o Zeros(padding))

marshalAttribute(t, data) ==
    LET unpadded == 2 + Len(data)
        padding == IF unpadded % 4 # 0 THEN 4 - (unpadded % 4) ELSE 0
        totalLen == unpadded + padding
    IN  IF totalLen > 255 * 4
        THEN Err
        ELSE Ok(<< t % 256, (totalLen \div 4) % 256 >> \o data \o Zeros(padding))

(***************************************************************************)
(* Attribute variants.  An attribute is a record whose field kind names the *)
(* Go struct and whose other fields are the struct's fields.                *)
(* X_Marshal(a) is (a *X).Marshal(); X_Unmarshal(data) is Unmarshal on a    *)
(* freshly allocated &X{}, as decodeAttribute calls it.                     *)
(***************************************************************************)
AtRand_Marshal(a) ==
    IF Len(a.Rand) # 16
    THEN Err
    ELSE marshalAttribute(AT_RAND, a.Rand)

AtRand_Unmarshal(data) ==
    IF Len(data) < 16
    THEN DecErr
    ELSE DecOk([kind |-> "AtRand", Rand |-> Copy(Zeros(16), Slice(data, 0, 16))])

AtAutn_Marshal(a) ==
    IF Len(a.Autn) # 16
    THEN Err
    ELSE marshalAttribute(AT_AUTN, a.Autn)

AtAutn_Unmarshal(data) ==
    IF Len(data) < 16
    THEN DecErr
    ELSE DecOk([kind |-> "AtAutn", Autn |-> Copy(Zeros(16), Slice(data, 0, 16))])

AtRes_Marshal(a) ==
    LET resLenBits == Len(a.Res) * 8
    IN  marshalAttribute(AT_RES, PutUint16(resLenBits) \o a.Res)

\* resLenBits is a uint16 and so is resLenBits + 7
AtRes_Unmarshal(data) ==
    IF Len(data) < 2
    THEN DecErr
    ELSE LET resLenBits == Uint16(data, 0)
             resLenBytes == ((resLenBits + 7) % 65536) \div 8
         IN  IF Len(data) < 2 + resLenBytes
             THEN DecErr
             ELSE DecOk([kind |-> "AtRes",
                         Res |-> Copy(Zeros(resLenBytes), Slice(data, 2, 2 + resLenBytes))])

\* a faulty variant: AUTS of any length is encoded
AtAuts_Marshal_AnyLength(a) == marshalAttribute(AT_AUTS, a.Auts)

AtAuts_Marshal(a) ==
    IF Len(a.Auts) # 14
    THEN Err
    ELSE marshalAttribute(AT_AUTS, a.Auts)

AtAuts_Unmarshal(data) ==
    IF Len(data) < 14
    THEN DecErr
    ELSE DecOk([kind |-> "AtAuts", Auts |-> Copy(Zeros(14), Slice(data, 0, 14))])

\* a faulty variant: reads the MAC from offset 0, over the reserved bytes
AtMac_Unmarshal_NoReserved(data) ==
    IF Len(data) < 18
    THEN DecErr
    ELSE DecOk([kind |-> "AtMac", MAC |-> Copy(Zeros(16), Slice(data, 0, 16))])

AtMac_Marshal(a) ==
    IF Len(a.MAC) > 0
    THEN IF Len(a.MAC) # 16
         THEN Err
         ELSE marshalAttribute(AT_MAC, Copy(Zeros(2 + 16), Zeros(2) \o a.MAC))
    ELSE marshalAttribute(AT_MAC, Zeros(2 + 16))

AtMac_Unmarshal(data) ==
    IF Len(data) < 18
    THEN DecErr
    ELSE DecOk([kind |-> "AtMac", MAC |-> Copy(Zeros(16), Slice(data, 2, 18))])

AtIdentity_Marshal(a) ==
    marshalAttribute(AT_IDENTITY, PutUint16(Len(a.Identity)) \o a.Identity)

AtIdentity_Unmarshal(data) ==
    IF Len(data) < 2
    THEN DecErr
    ELSE LET actualLen == Uint16(data, 0)
         IN  IF Len(data) < 2 + actualLen
             THEN DecErr
             ELSE DecOk([kind |-> "AtIdentity", Identity |-> Slice(data, 2, 2 + actualLen)])

AtPermanentIdReq_Marshal(a) ==
    marshalAttribute(AT_PERMANENT_ID_REQ, Zeros(2))

AtPermanentIdReq_Unmarshal(data) ==
    IF Len(data) < 2
    THEN DecErr
    ELSE DecOk([kind |-> "AtPermanentIdReq"])

AtAnyIdReq_Marshal(a) ==
    marshalAttribute(AT_ANY_ID_REQ, Zeros(2))

AtAnyIdReq_Unmarshal(data) ==
    IF Len(data) < 2
    THEN DecErr
    ELSE DecOk([kind |-> "AtAnyIdReq"])

AtFullauthIdReq_Marshal(a) ==
    marshalAttribute(AT_FULLAUTH_ID_REQ, Zeros(2))

AtFullauthIdReq_Unmarshal(data) ==
    IF Len(data) < 2
    THEN DecErr
    ELSE DecOk([kind |-> "AtFullauthIdReq"])

AtResultInd_Marshal(a) ==
    marshalAttribute(AT_RESULT_IND, Zeros(2))

AtResultInd_Unmarshal(data) ==
    IF Len(data) < 2
    THEN DecErr
    ELSE DecOk([kind |-> "AtResultInd"])

AtBidding_Marshal(a) ==
    marshalAttribute(AT_BIDDING, Zeros(2))

AtBidding_Unmarshal(data) ==
    IF Len(data) < 2
    THEN DecErr
    ELSE DecOk([kind |-> "AtBidding"])

AtCheckcode_Marshal(a) ==
    marshalAttribute(AT_CHECKCODE, Copy(Zeros(2 + Len(a.Checkcode)), Zeros(2) \o a.Checkcode))

AtCheckcode_Unmarshal(data) ==
    IF Len(data) < 2
    THEN DecErr
    ELSE DecOk([kind |-> "AtCheckcode",
                Checkcode |-> Copy(Zeros(Len(data) - 2), Slice(data, 2, Len(data)))])

\* make([]byte, a.Length) panics on a negative length
AtPadding_Marshal(a) ==
    IF a.Length < 0
    THEN Panic
    ELSE marshalAttribute(AT_PADDING, Zeros(a.Length))

\* a faulty variant: the two header bytes are counted as padding
AtPadding_Unmarshal_CountsHeader(data) ==
    DecOk([kind |-> "AtPadding", Length |-> Len(data) + 2])

AtPadding_Unmarshal(data) ==
    DecOk([kind |-> "AtPadding", Length |-> Len(data)])

AtKdfInput_Marshal(a) ==
    marshalAttribute(AT_KDF_INPUT, PutUint16(Len(a.NetworkName)) \o a.NetworkName)

AtKdfInput_Unmarshal(data) ==
    IF Len(data) < 2
    THEN DecErr
    ELSE LET actualLen == Uint16(data, 0)
         IN  IF Len(data) < 2 + actualLen
             THEN DecErr
             ELSE DecOk([kind |-> "AtKdfInput", NetworkName |-> Slice(data, 2, 2 + actualLen)])

AtKdf_Marshal(a) ==
    marshalAttribute(AT_KDF, PutUint16(a.KDF))

AtKdf_Unmarshal(data) ==
    IF Len(data) < 2
    THEN DecErr
    ELSE DecOk([kind |-> "AtKdf", KDF |-> Uint16(Slice(data, 0, 2), 0)])

AtNonceMt_Marshal(a) ==
    IF Len(a.NonceMt) # 16
    THEN Err
    ELSE marshalAttribute(AT_NONCE_MT, Copy(Zeros(2 + 16), Zeros(2) \o a.NonceMt))

AtNonceMt_Unmarshal(data) ==
    IF Len(data) < 18
    THEN DecErr
    ELSE DecOk([kind |-> "AtNonceMt", NonceMt |-> Copy(Zeros(16), Slice(data, 2, 18))])

\* val := a.Code & 0x3FFF, then | 0x8000 for S and | 0x4000 for P
\* a faulty variant: the Code is not masked to its 14 low bits
AtNotification_Marshal_NoMask(a) ==
    marshalAttribute(AT_NOTIFICATION,
        PutUint16((a.Code + (IF a.S THEN 32768 ELSE 0)
                          + (IF a.P THEN 16384 ELSE 0)) % 65536))

AtNotification_Marshal(a) ==
    LET val == (a.Code % 16384)
               + (IF a.S THEN 32768 ELSE 0)
               + (IF a.P THEN 16384 ELSE 0)
    IN  marshalAttribute(AT_NOTIFICATION, PutUint16(val))

AtNotification_Unmarshal(data) ==
    IF Len(data) < 2
    THEN DecErr
    ELSE LET val == Uint16(Slice(data, 0, 2), 0)
         IN  DecOk([kind |-> "AtNotification",
                    S |-> (val \div 32768) % 2 # 0,
                    P |-> (val \div 16384) % 2 # 0,
                    Code |-> val % 16384])

\* the loop binary.BigEndian.PutUint16(data[2+i*2:], v) over the versions:
\* byte k of what it writes
PutVersions(vs) ==
    [k \in 1..(2 * Len(vs)) |->
        IF k % 2 = 1 THEN (vs[(k + 1) \div 2] \div 256) % 256 ELSE vs[k \div 2] % 256]

AtVersionList_Marshal(a) ==
    LET actualLen == Len(a.Versions) * 2
    IN  marshalAttribute(AT_VERSION_LIST, PutUint16(actualLen) \o PutVersions(a.Versions))

AtVersionList_Unmarshal(data) ==
    IF Len(data) < 2
    THEN DecErr
    ELSE LET actualLen == Uint16(data, 0)
             numVersions == actualLen \div 2
         IN  IF Len(data) < 2 + actualLen
             THEN DecErr
             ELSE DecOk([kind |-> "AtVersionList",
                         Versions |-> [i \in 1..numVersions |->
                                          Uint16(Slice(data, 2 + (i - 1) * 2, 4 + (i - 1) * 2), 0)]])

AtSelectedVersion_Marshal(a) ==
    marshalAttribute(AT_SELECTED_VERSION, PutUint16(a.Version))

AtSelectedVersion_Unmarshal(data) ==
    IF Len(data) < 2
    THEN DecErr
    ELSE DecOk([kind |-> "AtSelectedVersion", Version |-> Uint16(Slice(data, 0, 2), 0)])

AtCounter_Marshal(a) ==
    marshalAttribute(AT_COUNTER, PutUint16(a.Counter))

AtCounter_Unmarshal(data) ==
    IF Len(data) < 2
    THEN DecErr
    ELSE DecOk([kind |-> "AtCounter", Counter |-> Uint16(Slice(data, 0, 2), 0)])

AtCounterTooSmall_Marshal(a) ==
    marshalAttribute(AT_COUNTER_TOO_SMALL, Zeros(2))

AtCounterTooSmall_Unmarshal(data) ==
    IF Len(data) < 2
    THEN DecErr
    ELSE DecOk([kind |-> "AtCounterTooSmall"])

AtNonceS_Marshal(a) ==
    IF Len(a.NonceS) # 16
    THEN Err
    ELSE marshalAttribute(AT_NONCE_S, Copy(Zeros(2 + 16), Zeros(2) \o a.NonceS))

AtNonceS_Unmarshal(data) ==
    IF Len(data) < 18
    THEN DecErr
    ELSE DecOk([kind |-> "AtNonceS", NonceS |-> Copy(Zeros(16), Slice(data, 2, 18))])

AtClientErrorCode_Marshal(a) ==
    marshalAttribute(AT_CLIENT_ERROR_CODE, PutUint16(a.Code))

AtClientErrorCode_Unmarshal(data) ==
    IF Len(data) < 2
    THEN DecErr
    ELSE DecOk([kind |-> "AtClientErrorCode", Code |-> Uint16(Slice(data, 0, 2), 0)])

AtIv_Marshal(a) ==
    IF Len(a.IV) # 16
    THEN Err
    ELSE marshalAttribute(AT_IV, Copy(Zeros(2 + 16), Zeros(2) \o a.IV))

AtIv_Unmarshal(data) ==
    IF Len(data) < 18
    THEN DecErr
    ELSE DecOk([kind |-> "AtIv", IV |-> Copy(Zeros(16), Slice(data, 2, 18))])

AtEncrData_Marshal(a) ==
    marshalAttribute(AT_ENCR_DATA, Copy(Zeros(2 + Len(a.EncryptedData)), Zeros(2) \o a.EncryptedData))

AtEncrData_Unmarshal(data) ==
    IF Len(data) < 2
    THEN DecErr
    ELSE DecOk([kind |-> "AtEncrData",
                EncryptedData |-> Copy(Zeros(Len(data) - 2), Slice(data, 2, Len(data)))])

AtNextPseudonym_Marshal(a) ==
    marshalAttribute(AT_NEXT_PSEUDONYM, PutUint16(Len(a.Pseudonym)) \o a.Pseudonym)

AtNextPseudonym_Unmarshal(data) ==
    IF Len(data) < 2
    THEN DecErr
    ELSE LET actualLen == Uint16(data, 0)
         IN  IF Len(data) < 2 + actualLen
             THEN DecErr
             ELSE DecOk([kind |-> "AtNextPseudonym", Pseudonym |-> Slice(data, 2, 2 + actualLen)])

AtNextReauthId_Marshal(a) ==
    marshalAttribute(AT_NEXT_REAUTH_ID, PutUint16(Len(a.Identity)) \o a.Identity)

AtNextReauthId_Unmarshal(data) ==
    IF Len(data) < 2
    THEN DecErr
    ELSE LET actualLen == Uint16(data, 0)
         IN  IF Len(data) < 2 + actualLen
             THEN DecErr
             ELSE DecOk([kind |-> "AtNextReauthId", Identity |-> Slice(data, 2, 2 + actualLen)])

\* a faulty variant: an unknown attribute is rejected
GenericAttribute_Unmarshal_Reject(t, data) ==
    DecErr

GenericAttribute_Marshal(a) ==
    marshalAttribute(a.AttrType, a.Data)

GenericAttribute_Unmarshal(t, data) ==
    DecOk([kind |-> "GenericAttribute", AttrType |-> t,
           Data |-> Copy(Zeros(Len(data)), data)])

(***************************************************************************)
(* Dynamic dispatch on the Attribute interface, and decodeAttribute        *)
(***************************************************************************)
\* attr.Type()
AttrTypeOf(a) ==
    CASE a.kind = "AtRand" -> AT_RAND
      [] a.kind = "AtAutn" -> AT_AUTN
      [] a.kind = "AtRes" -> AT_RES
      [] a.kind = "AtAuts" -> AT_AUTS
      [] a.kind = "AtMac" -> AT_MAC
      [] a.kind = "AtIdentity" -> AT_IDENTITY
      [] a.kind = "AtPermanentIdReq" -> AT_PERMANENT_ID_REQ
      [] a.kind = "AtAnyIdReq" -> AT_ANY_ID_REQ
      [] a.kind = "AtFullauthIdReq" -> AT_FULLAUTH_ID_REQ
      [] a.kind = "AtResultInd" -> AT_RESULT_IND
      [] a.kind = "AtBidding" -> AT_BIDDING
      [] a.kind = "AtCheckcode" -> AT_CHECKCODE
      [] a.kind = "AtPadding" -> AT_PADDING
      [] a.kind = "AtKdfInput" -> AT_KDF_INPUT
      [] a.kind = "AtKdf" -> AT_KDF
      [] a.kind = "AtNonceMt" -> AT_NONCE_MT
      [] a.kind = "AtNotification" -> AT_NOTIFICATION
      [] a.kind = "AtVersionList" -> AT_VERSION_LIST
      [] a.kind = "AtSelectedVersion" -> AT_SELECTED_VERSION
      [] a.kind = "AtCounter" -> AT_COUNTER
      [] a.kind = "AtCounterTooSmall" -> AT_COUNTER_TOO_SMALL
      [] a.kind = "AtNonceS" -> AT_NONCE_S
      [] a.kind = "AtClientErrorCode" -> AT_CLIENT_ERROR_CODE
      [] a.kind = "AtIv" -> AT_IV
      [] a.kind = "AtEncrData" -> AT_ENCR_DATA
      [] a.kind = "AtNextPseudonym" -> AT_NEXT_PSEUDONYM
      [] a.kind = "AtNextReauthId" -> AT_NEXT_REAUTH_ID
      [] OTHER -> a.AttrType

\* attr.Marshal()
Attr_Marshal(a) ==
    CASE a.kind = "AtRand" -> AtRand_Marshal(a)
      [] a.kind = "AtAutn" -> AtAutn_Marshal(a)
      [] a.kind = "AtRes" -> AtRes_Marshal(a)
      [] a.kind = "AtAuts" -> AtAuts_Marshal(a)
      [] a.kind = "AtMac" -> AtMac_Marshal(a)
      [] a.kind = "AtIdentity" -> AtIdentity_Marshal(a)
      [] a.kind = "AtPermanentIdReq" -> AtPermanentIdReq_Marshal(a)
      [] a.kind = "AtAnyIdReq" -> AtAnyIdReq_Marshal(a)
      [] a.kind = "AtFullauthIdReq" -> AtFullauthIdReq_Marshal(a)
      [] a.kind = "AtResultInd" -> AtResultInd_Marshal(a)
      [] a.kind = "AtBidding" -> AtBidding_Marshal(a)
      [] a.kind = "AtCheckcode" -> AtCheckcode_Marshal(a)
      [] a.kind = "AtPadding" -> AtPadding_Marshal(a)
      [] a.kind = "AtKdfInput" -> AtKdfInput_Marshal(a)
      [] a.kind = "AtKdf" -> AtKdf_Marshal(a)
      [] a.kind = "AtNonceMt" -> AtNonceMt_Marshal(a)
      [] a.kind = "AtNotification" -> AtNotification_Marshal(a)
      [] a.kind = "AtVersionList" -> AtVersionList_Marshal(a)
      [] a.kind = "AtSelectedVersion" -> AtSelectedVersion_Marshal(a)
      [] a.kind = "AtCounter" -> AtCounter_Marshal(a)
      [] a.kind = "AtCounterTooSmall" -> AtCounterTooSmall_Marshal(a)
      [] a.kind = "AtNonceS" -> AtNonceS_Marshal(a)
      [] a.kind = "AtClientErrorCode" -> AtClientErrorCode_Marshal(a)
      [] a.kind = "AtIv" -> AtIv_Marshal(a)
      [] a.kind = "AtEncrData" -> AtEncrData_Marshal(a)
      [] a.kind = "AtNextPseudonym" -> AtNextPseudonym_Marshal(a)
      [] a.kind = "AtNextReauthId" -> AtNextReauthId_Marshal(a)
      [] OTHER -> GenericAttribute_Marshal(a)

decodeAttribute(t, data) ==
    CASE t = AT_RAND -> AtRand_Unmarshal(data)
      [] t = AT_AUTN -> AtAutn_Unmarshal(data)
      [] t = AT_RES -> AtRes_Unmarshal(data)
      [] t = AT_AUTS -> AtAuts_Unmarshal(data)
      [] t = AT_MAC -> AtMac_Unmarshal(data)
      [] t = AT_IDENTITY -> AtIdentity_Unmarshal(data)
      [] t = AT_PERMANENT_ID_REQ -> AtPermanentIdReq_Unmarshal(data)
      [] t = AT_ANY_ID_REQ -> AtAnyIdReq_Unmarshal(data)
      [] t = AT_FULLAUTH_ID_REQ -> AtFullauthIdReq_Unmarshal(data)
      [] t = AT_RESULT_IND -> AtResultInd_Unmarshal(data)
      [] t = AT_BIDDING -> AtBidding_Unmarshal(data)
      [] t = AT_CHECKCODE -> AtCheckcode_Unmarshal(data)
      [] t = AT_PADDING -> AtPadding_Unmarshal(data)
      [] t = AT_KDF_INPUT -> AtKdfInput_Unmarshal(data)
      [] t = AT_KDF -> AtKdf_Unmarshal(data)
      [] t = AT_NONCE_MT -> AtNonceMt_Unmarshal(data)
      [] t = AT_NOTIFICATION -> AtNotification_Unmarshal(data)
      [] t = AT_VERSION_LIST -> AtVersionList_Unmarshal(data)
      [] t = AT_SELECTED_VERSION -> AtSelectedVersion_Unmarshal(data)
      [] t = AT_COUNTER -> AtCounter_Unmarshal(data)
      [] t = AT_COUNTER_TOO_SMALL -> AtCounterTooSmall_Unmarshal(data)
      [] t = AT_NONCE_S -> AtNonceS_Unmarshal(data)
      [] t = AT_CLIENT_ERROR_CODE -> AtClientErrorCode_Unmarshal(data)
      [] t = AT_IV -> AtIv_Unmarshal(data)
      [] t = AT_ENCR_DATA -> AtEncrData_Unmarshal(data)
      [] t = AT_NEXT_PSEUDONYM -> AtNextPseudonym_Unmarshal(data)
      [] t = AT_NEXT_REAUTH_ID -> AtNextReauthId_Unmarshal(data)
      [] OTHER -> GenericAttribute_Unmarshal(t, data)

(***************************************************************************)
(* Packet (packet.go) and Packet.Marshal                                   *)
(* An operator whose name ends in a step name (Marshal_Header, ...) is the *)
(* rest of the function from that step on, given the values computed so    *)
(* far.                                                                    *)
(***************************************************************************)
\* &Packet{}: the zero value
ZeroPacket ==
    [Code |-> 0, Identifier |-> 0, Type |-> 0, Subtype |-> 0, Attributes |-> << >>]

\* the nil *Packet
NoPacket == [kind |-> "nil"]

\* attrsBuf.Write(b) after b, err := attr.Marshal()
\* a faulty variant: the encoding is put in front of what was written before
MarshalAttributes_Write_Prepend(attrsBuf, b) ==
    IF b.kind # "ok"
    THEN b
    ELSE Ok(b.bytes \o attrsBuf)

MarshalAttributes_Write(attrsBuf, b) ==
    IF b.kind # "ok"
    THEN b
    ELSE Ok(attrsBuf \o b.bytes)

\* the loop over p.Attributes: attrsBuf.Write(b) for each attribute in list
\* order, `return nil, err` at the first attribute whose Marshal fails.  The
\* list positions lo..hi are walked in two halves, left half first, so that
\* the evaluation depth stays logarithmic in the length of the list.
RECURSIVE MarshalAttributes_Range(_, _, _)
RECURSIVE MarshalAttributes_Join(_, _, _, _)
MarshalAttributes_Join(left, attrs, lo, hi) ==
    IF left.kind # "ok"
    THEN left
    ELSE MarshalAttributes_Write(left.bytes, MarshalAttributes_Range(attrs, lo, hi))

MarshalAttributes_Range(attrs, lo, hi) ==
    IF lo > hi
    THEN Ok(<< >>)
    ELSE IF lo = hi
    THEN Attr_Marshal(attrs[lo])
    ELSE MarshalAttributes_Join(MarshalAttributes_Range(attrs, lo, (lo + hi) \div 2),
                                attrs, (lo + hi) \div 2 + 1, hi)

\* the loop from index i, attrsBuf holding what was written before it
MarshalAttributes(attrs, i, attrsBuf) ==
    MarshalAttributes_Write(attrsBuf, MarshalAttributes_Range(attrs, i, Len(attrs)))

\* a faulty variant: the range check on the EAP length is left out, so that
\* uint16(eapLen) wraps modulo 65536
Marshal_Header_Wrap(p, attrsBuf) ==
    IF attrsBuf.kind # "ok"
    THEN attrsBuf
    ELSE Ok(<< p.Code, p.Identifier >> \o PutUint16(4 + Len(attrsBuf.bytes))
              \o attrsBuf.bytes)

\* step 2 of Marshal: the EAP header in front of attrsBuf
Marshal_Header(p, attrsBuf) ==
    IF attrsBuf.kind # "ok"
    THEN attrsBuf
    ELSE IF 4 + Len(attrsBuf.bytes) > 65535
    THEN Err
    ELSE Ok(<< p.Code, p.Identifier >> \o PutUint16(4 + Len(attrsBuf.bytes))
              \o attrsBuf.bytes)

\* a faulty variant: the method header is left out
Marshal_NoMethodHeader(p) ==
    Marshal_Header(p,
        IF p.Code = CodeRequest \/ p.Code = CodeResponse
        THEN MarshalAttributes(p.Attributes, 1, << >>)
        ELSE Ok(<< >>))

\* a faulty variant: the attributes are encoded whatever the Code is
Marshal_AnyCode(p) ==
    Marshal_Header(p,
        MarshalAttributes(p.Attributes, 1,
                          IF (p.Code = CodeRequest \/ p.Code = CodeResponse)
                             /\ (p.Type = TypeAKA \/ p.Type = TypeAKAPrime)
                          THEN << p.Type, p.Subtype, 0, 0 >>
                          ELSE << >>))

Marshal(p) ==
    Marshal_Header(p,
        IF p.Code = CodeRequest \/ p.Code = CodeResponse
        THEN MarshalAttributes(p.Attributes, 1,
                               IF p.Type = TypeAKA \/ p.Type = TypeAKAPrime
                               THEN << p.Type, p.Subtype, 0, 0 >>
                               ELSE << >>)
        ELSE Ok(<< >>))

(***************************************************************************)
(* Parse                                                                   *)
(***************************************************************************)
ParseOk(p) == [kind |-> "ok", pkt |-> p]
ParseErr == [kind |-> "err", pkt |-> NoPacket]
ParsePanic == [kind |-> "panic", pkt |-> NoPacket]

\* the attribute loop of Parse, from `offset` with `attrs` decoded so far
RECURSIVE parseAttributes(_, _, _, _)
RECURSIVE parseAttributes_Append(_, _, _, _, _)
\* a faulty variant: the attribute is put in front of the list
parseAttributes_Append_Prepend(p, attrData, offset, attrs, d) ==
    IF d.kind # "ok"
    THEN ParseErr
    ELSE parseAttributes(p, attrData, offset, << d.attr >> \o attrs)

parseAttributes_Append(p, attrData, offset, attrs, d) ==
    IF d.kind # "ok"
    THEN ParseErr
    ELSE parseAttributes(p, attrData, offset, Append(attrs, d.attr))

\* a faulty variant of the attribute loop: a framing error ends the loop and
\* the attributes decoded so far are returned
parseAttributes_Partial(p, attrData, offset, attrs) ==
    IF ~(offset < Len(attrData))
    THEN ParseOk([p EXCEPT !.Attributes = attrs])
    ELSE IF offset + 2 > Len(attrData)
    THEN ParseOk([p EXCEPT !.Attributes = attrs])
    ELSE IF attrData[offset + 2] * 4 = 0
    THEN ParseOk([p EXCEPT !.Attributes = attrs])
    ELSE IF offset + attrData[offset + 2] * 4 > Len(attrData)
    THEN ParseOk([p EXCEPT !.Attributes = attrs])
    ELSE parseAttributes_Append(p, attrData, offset + attrData[offset + 2] * 4, attrs,
             decodeAttribute(attrData[offset + 1],
                             Slice(attrData, offset + 2, offset + attrData[offset + 2] * 4)))

\* attrType is attrData[offset], attrLen is int(attrData[offset+1]) * 4
parseAttributes(p, attrData, offset, attrs) ==
    IF ~(offset < Len(attrData))
    THEN ParseOk([p EXCEPT !.Attributes = attrs])
    ELSE IF offset + 2 > Len(attrData)
    THEN ParseErr
    ELSE IF attrData[offset + 2] * 4 = 0
    THEN ParseErr
    ELSE IF offset + attrData[offset + 2] * 4 > Len(attrData)
    THEN ParseErr
    ELSE parseAttributes_Append(p, attrData, offset + attrData[offset + 2] * 4, attrs,
             decodeAttribute(attrData[offset + 1],
                             Slice(attrData, offset + 2, offset + attrData[offset + 2] * 4)))

\* a faulty variant: reserved bytes that are not zero are an error
Parse_Payload_CheckReserved(p, payload) ==
    IF p.Code = CodeSuccess \/ p.Code = CodeFailure
    THEN ParseOk(p)
    ELSE IF Len(payload) = 0
    THEN ParseOk(p)
    ELSE IF payload[1] # TypeAKA /\ payload[1] # TypeAKAPrime
    THEN ParseOk([p EXCEPT !.Type = payload[1]])
    ELSE IF Len(payload) < 4
    THEN ParseErr
    ELSE IF payload[3] # 0 \/ payload[4] # 0
    THEN ParseErr
    ELSE parseAttributes([p EXCEPT !.Type = payload[1], !.Subtype = payload[2]],
                         Slice(payload, 4, Len(payload)), 0, << >>)

\* Parse from `payload := data[4:length]` on, p holding Code and Identifier
Parse_Payload(p, payload) ==
    IF p.Code = CodeSuccess \/ p.Code = CodeFailure
    THEN ParseOk(p)
    ELSE IF Len(payload) = 0
    THEN ParseOk(p)
    ELSE IF payload[1] # TypeAKA /\ payload[1] # TypeAKAPrime
    THEN ParseOk([p EXCEPT !.Type = payload[1]])
    ELSE IF Len(payload) < 4
    THEN ParseErr
    ELSE parseAttributes([p EXCEPT !.Type = payload[1], !.Subtype = payload[2]],
                         Slice(payload, 4, Len(payload)), 0, << >>)

\* a faulty variant: the payload is everything after the header, data[4:]
Parse_WholeBuffer(data) ==
    IF Len(data) < 4
    THEN ParseErr
    ELSE IF Uint16(Slice(data, 2, 4), 0) > Len(data)
    THEN ParseErr
    ELSE IF Uint16(Slice(data, 2, 4), 0) < 4
    THEN ParsePanic
    ELSE Parse_Payload([ZeroPacket EXCEPT !.Code = data[1], !.Identifier = data[2]],
                       Slice(data, 4, Len(data)))

\* data[4:length] panics (slice bounds out of range) when length < 4
Parse(data) ==
    IF Len(data) < 4
    THEN ParseErr
    ELSE IF Uint16(Slice(data, 2, 4), 0) > Len(data)
    THEN ParseErr
    ELSE IF Uint16(Slice(data, 2, 4), 0) < 4
    THEN ParsePanic
    ELSE Parse_Payload([ZeroPacket EXCEPT !.Code = data[1], !.Identifier = data[2]],
                       Slice(data, 4, Uint16(Slice(data, 2, 4), 0)))

(***************************************************************************)
(* Digests.  The standard library's HMAC-SHA-1, HMAC-SHA-256 and MD5 are   *)
(* abstracted: each is a deterministic function of its inputs with the      *)
(* algorithm's output size; the byte values are those of a simple checksum, *)
(* not of the real algorithm.                                               *)
(***************************************************************************)
\* a checksum of s[lo..hi] that depends on every byte and on its position
RECURSIVE Absorb(_, _, _)
Absorb(s, lo, hi) ==
    IF lo > hi
    THEN 5
    ELSE IF lo = hi
    THEN s[lo] + 1
    ELSE LET mid == (lo + hi) \div 2
         IN  (Absorb(s, lo, mid) * 31 + Absorb(s, mid + 1, hi) * 17 + (hi - lo)) % 65521

Digest(alg, key, data, n) ==
    LET v == (Absorb(key, 1, Len(key)) * 257 + Absorb(data, 1, Len(data)) * 3 + alg) % 65521
    IN  [j \in 1..n |-> (v + (v \div 256) * j + j * j) % 256]

HmacSha1(key, data) == Digest(1, key, data, 20)
HmacSha256(key, data) == Digest(2, key, data, 32)
Md5(data) == Digest(3, << >>, data, 16)

(***************************************************************************)
(* MAC engine: CalculateAndSetMac, VerifyMac, calculateMac                 *)
(***************************************************************************)
\* the search loop: index of the first *AtMac in p.Attributes, 0 when none
RECURSIVE FindMacFrom(_, _)
FindMacFrom(attrs, i) ==
    IF i > Len(attrs)
    THEN 0
    ELSE IF attrs[i].kind = "AtMac" THEN i ELSE FindMacFrom(attrs, i + 1)

FindMac(p) == FindMacFrom(p.Attributes, 1)

\* macAttr.MAC = v, through the pointer held in p.Attributes
SetMac(p, i, v) == [p EXCEPT !.Attributes[i].MAC = v]

\* fullMac[:16]
calculateMac_Truncate(fullMac) ==
    IF Len(fullMac) < 16 THEN Err ELSE Ok(Slice(fullMac, 0, 16))

\* a faulty variant: a Type that is not AKA' is taken as AKA
calculateMac_AnyType(p, kAut, data) ==
    CASE p.Type = TypeAKAPrime -> calculateMac_Truncate(HmacSha256(kAut, data))
      [] OTHER -> calculateMac_Truncate(HmacSha1(kAut, data))

\* a faulty variant: the two hash functions are exchanged
calculateMac_SwappedHash(p, kAut, data) ==
    CASE p.Type = TypeAKA -> calculateMac_Truncate(HmacSha256(kAut, data))
      [] p.Type = TypeAKAPrime -> calculateMac_Truncate(HmacSha1(kAut, data))
      [] OTHER -> Err

calculateMac(p, kAut, data) ==
    CASE p.Type = TypeAKA -> calculateMac_Truncate(HmacSha1(kAut, data))
      [] p.Type = TypeAKAPrime -> calculateMac_Truncate(HmacSha256(kAut, data))
      [] OTHER -> Err

\* step 4: copy(macAttr.MAC, mac); returns the error and the Packet as left
CalculateAndSetMac_Set(zeroed, i, mac) ==
    IF mac.kind # "ok"
    THEN [kind |-> "err", pkt |-> zeroed]
    ELSE [kind |-> "ok", pkt |-> SetMac(zeroed, i, Copy(zeroed.Attributes[i].MAC, mac.bytes))]

\* step 3, after data, err := p.Marshal()
CalculateAndSetMac_Marshalled(zeroed, kAut, i, data) ==
    IF data.kind # "ok"
    THEN [kind |-> data.kind, pkt |-> zeroed]
    ELSE CalculateAndSetMac_Set(zeroed, i, calculateMac(zeroed, kAut, data.bytes))

\* step 2, after macAttr.MAC = make([]byte, 16)
CalculateAndSetMac_Zeroed(zeroed, kAut, i) ==
    CalculateAndSetMac_Marshalled(zeroed, kAut, i, Marshal(zeroed))

\* step 1, after the search loop
CalculateAndSetMac_Found(p, kAut, i) ==
    IF i = 0
    THEN [kind |-> "err", pkt |-> p]
    ELSE CalculateAndSetMac_Zeroed(SetMac(p, i, Zeros(16)), kAut, i)

CalculateAndSetMac(p, kAut) == CalculateAndSetMac_Found(p, kAut, FindMac(p))

\* subtle.ConstantTimeCompare(x, y) == 1
ConstantTimeCompare(x, y) == Len(x) = Len(y) /\ x = y

\* copy(macAttr.MAC, receivedMac)
VerifyMac_Restore(zeroed, i, receivedMac) ==
    SetMac(zeroed, i, Copy(zeroed.Attributes[i].MAC, receivedMac))

\* steps 5 and 6, after expectedMac, err := p.calculateMac(kAut, data)
VerifyMac_Compare(zeroed, i, receivedMac, expectedMac) ==
    IF expectedMac.kind # "ok"
    THEN [kind |-> "err", match |-> FALSE, pkt |-> VerifyMac_Restore(zeroed, i, receivedMac)]
    ELSE [kind |-> "ok", match |-> ConstantTimeCompare(receivedMac, expectedMac.bytes),
          pkt |-> VerifyMac_Restore(zeroed, i, receivedMac)]

\* step 4, after data, err := p.Marshal(); a panic unwinds past the restore
VerifyMac_Marshalled(zeroed, kAut, i, receivedMac, data) ==
    IF data.kind = "panic"
    THEN [kind |-> "panic", match |-> FALSE, pkt |-> zeroed]
    ELSE IF data.kind # "ok"
    THEN [kind |-> "err", match |-> FALSE, pkt |-> VerifyMac_Restore(zeroed, i, receivedMac)]
    ELSE VerifyMac_Compare(zeroed, i, receivedMac,
                           calculateMac(zeroed, kAut, data.bytes))

\* a faulty variant: the expected MAC is computed over the packet as received,
\* AT_MAC not zeroed
VerifyMac_Saved_NoZero(p, kAut, i, receivedMac) ==
    VerifyMac_Marshalled(p, kAut, i, receivedMac, Marshal(p))

\* steps 2 and 3, after receivedMac was saved
VerifyMac_Saved(p, kAut, i, receivedMac) ==
    VerifyMac_Marshalled(SetMac(p, i, Zeros(16)), kAut, i, receivedMac,
                         Marshal(SetMac(p, i, Zeros(16))))

\* step 1, after the search loop
VerifyMac_Found(p, kAut, i) ==
    IF i = 0
    THEN [kind |-> "err", match |-> FALSE, pkt |-> p]
    ELSE VerifyMac_Saved(p, kAut, i, Copy(Zeros(16), p.Attributes[i].MAC))

\* returns the match, the error and the Packet as the call leaves it
VerifyMac(p, kAut) == VerifyMac_Found(p, kAut, FindMac(p))

(***************************************************************************)
(* MPPE key encryptor (mppe.go)                                            *)
(***************************************************************************)
\* x ^ y on bytes
RECURSIVE XorBits(_, _, _)
XorBits(x, y, n) ==
    IF n = 0
    THEN 0
    ELSE ((x + y) % 2) + 2 * XorBits(x \div 2, y \div 2, n - 1)

Xor(x, y) == XorBits(x, y, 8)

\* x | 0x80 on a byte
OrHighBit(x) == IF x < 128 THEN x + 128 ELSE x

\* a faulty variant of the block loop: b(i+1) = MD5(secret + p(i))
RECURSIVE EncryptBlocks_ChainPlain(_, _, _, _)
EncryptBlocks_ChainPlain(plaintext, secret, i, b) ==
    IF ~(i < Len(plaintext))
    THEN << >>
    ELSE LET pBlock == Slice(plaintext, i, i + 16)
             cBlock == [j \in 1..16 |-> Xor(pBlock[j], b[j])]
         IN  cBlock \o EncryptBlocks_ChainPlain(plaintext, secret, i + 16,
                                                Md5(secret \o pBlock))

\* the block loop: the ciphertext of plaintext[i:], b being b(i/16 + 1)
RECURSIVE EncryptBlocks(_, _, _, _)
EncryptBlocks(plaintext, secret, i, b) ==
    IF ~(i < Len(plaintext))
    THEN << >>
    ELSE LET pBlock == Slice(plaintext, i, i + 16)
             cBlock == [j \in 1..16 |-> Xor(pBlock[j], b[j])]
         IN  cBlock \o EncryptBlocks(plaintext, secret, i + 16, Md5(secret \o cBlock))

\* steps 2 and 3 of EncryptMPPEKey: the plaintext and the result, given the salt
EncryptMPPEKey_Encrypt(key, secret, reqAuth, salt) ==
    LET plainLen == 1 + Len(key)
        padLen == (16 - (plainLen % 16)) % 16
        plaintext == Copy(Zeros(plainLen + padLen), << Len(key) % 256 >> \o key)
        b == Md5(secret \o reqAuth \o salt)
    IN  Ok(Copy(Zeros(2 + Len(plaintext)),
                salt \o EncryptBlocks(plaintext, secret, 0, b)))

\* a faulty variant: the salt is used as the random source delivered it
EncryptMPPEKey_RawSalt(key, secret, reqAuth, rnd) ==
    IF Len(key) = 0 \/ Len(key) > 255
    THEN Err
    ELSE IF Len(reqAuth) # 16
    THEN Err
    ELSE IF ~rnd.ok
    THEN Err
    ELSE EncryptMPPEKey_Encrypt(key, secret, reqAuth, rnd.bytes)

\* a faulty variant: the error of rand.Read is dropped and the salt buffer is
\* used as it is
EncryptMPPEKey_IgnoreRandError(key, secret, reqAuth, rnd) ==
    IF Len(key) = 0 \/ Len(key) > 255
    THEN Err
    ELSE IF Len(reqAuth) # 16
    THEN Err
    ELSE EncryptMPPEKey_Encrypt(key, secret, reqAuth,
                                << OrHighBit(rnd.bytes[1]), rnd.bytes[2] >>)

\* rnd is what rand.Read(salt) does: rnd.ok is FALSE when it returns an error,
\* otherwise rnd.bytes are the two bytes it delivers
EncryptMPPEKey(key, secret, reqAuth, rnd) ==
    IF Len(key) = 0 \/ Len(key) > 255
    THEN Err
    ELSE IF Len(reqAuth) # 16
    THEN Err
    ELSE IF ~rnd.ok
    THEN Err
    ELSE EncryptMPPEKey_Encrypt(key, secret, reqAuth,
                                << OrHighBit(rnd.bytes[1]), rnd.bytes[2] >>)

(***************************************************************************)
(* Inputs                                                                  *)
(***************************************************************************)
MaxAttrs == 2      \* attributes in a Packet the caller constructs
MaxTlvs == 2       \* TLV chunks in a buffer the caller receives

\* all sequences over S of length at most n
SeqsUpTo(S, n) == UNION { [1..k -> S] : k \in 0..n }

\* kAut arguments
Keys == { << 1, 2, 3 >>, << 9 >> }

\* attributes that occur at every position of a constructed Packet
ListAttrs ==
    { [kind |-> "AtRand", Rand |-> Pattern(16, 1)],
      [kind |-> "AtRand", Rand |-> Pattern(15, 1)],
      [kind |-> "AtMac", MAC |-> Pattern(16, 40)],
      [kind |-> "AtMac", MAC |-> << >>],
      [kind |-> "AtMac", MAC |-> Pattern(5, 40)],
      [kind |-> "AtIdentity", Identity |-> << 97, 98, 99 >>],
      [kind |-> "AtPadding", Length |-> 0 - 1],
      [kind |-> "GenericAttribute", AttrType |-> 200, Data |-> << 1, 2 >>] }

\* attributes that occur alone in a constructed Packet
SingleAttrs ==
    { [kind |-> "AtMac", MAC |-> Pattern(20, 40)],
      [kind |-> "AtMac", MAC |-> Zeros(16)],
      [kind |-> "AtAutn", Autn |-> Pattern(16, 2)],
      [kind |-> "AtAuts", Auts |-> Pattern(14, 3)],
      [kind |-> "AtAutn", Autn |-> Pattern(15, 2)],
      [kind |-> "AtAuts", Auts |-> Pattern(16, 3)],
      [kind |-> "AtNonceMt", NonceMt |-> Pattern(17, 6)],
      [kind |-> "AtNonceS", NonceS |-> << >>],
      [kind |-> "AtIv", IV |-> Pattern(4, 8)],
      [kind |-> "AtRes", Res |-> Pattern(5, 4)],
      [kind |-> "AtNotification", S |-> TRUE, P |-> FALSE, Code |-> 1026],
      [kind |-> "AtNotification", S |-> FALSE, P |-> FALSE, Code |-> 16385],
      [kind |-> "AtCounter", Counter |-> 12345],
      [kind |-> "AtClientErrorCode", Code |-> 1],
      [kind |-> "AtKdfInput", NetworkName |-> << 87, 76 >>],
      [kind |-> "AtKdf", KDF |-> 1],
      [kind |-> "AtVersionList", Versions |-> << 1, 513 >>],
      [kind |-> "AtPermanentIdReq"],
      [kind |-> "AtCheckcode", Checkcode |-> Pattern(4, 5)],
      [kind |-> "AtCheckcode", Checkcode |-> Pattern(1, 5)],
      [kind |-> "AtEncrData", EncryptedData |-> Pattern(16, 6)],
      [kind |-> "AtPadding", Length |-> 2],
      [kind |-> "AtPadding", Length |-> 0],
      [kind |-> "AtPadding", Length |-> 3],
      [kind |-> "AtNonceS", NonceS |-> Pattern(16, 7)],
      [kind |-> "AtIv", IV |-> Pattern(16, 8)],
      [kind |-> "GenericAttribute", AttrType |-> 200, Data |-> << 1, 2, 3 >>],
      [kind |-> "GenericAttribute", AttrType |-> AT_RAND, Data |-> Pattern(18, 9)],
      [kind |-> "GenericAttribute", AttrType |-> AT_MAC, Data |-> Pattern(18, 9)] }

Hdr(c, id, t, st) ==
    [Code |-> c, Identifier |-> id, Type |-> t, Subtype |-> st, Attributes |-> << >>]

\* Packets the caller constructs
PacketInputs ==
    { [h EXCEPT !.Attributes = as] :
        h \in { Hdr(CodeRequest, 1, TypeAKA, 1), Hdr(CodeResponse, 2, TypeAKAPrime, 0) },
        as \in SeqsUpTo(ListAttrs, MaxAttrs) }
    \cup
    { [h EXCEPT !.Attributes = as] :
        h \in { Hdr(CodeRequest, 10, TypeAKA, 12), Hdr(CodeRequest, 1, 0, 0),
                Hdr(CodeRequest, 1, 7, 0), Hdr(CodeResponse, 1, 0, 5),
                Hdr(CodeSuccess, 2, 0, 0), Hdr(CodeSuccess, 2, TypeAKA, 1),
                Hdr(CodeFailure, 3, 0, 0), Hdr(5, 1, 0, 0), Hdr(5, 1, TypeAKA, 0) },
        as \in { << >> } \cup { << a >> : a \in SingleAttrs \cup ListAttrs } }

RECURSIVE Flatten(_)
Flatten(ss) == IF ss = << >> THEN << >> ELSE Head(ss) \o Flatten(Tail(ss))

\* pieces of an attribute stream: well-formed TLVs and malformed ones
Chunks ==
    { << AT_RAND, 5, 0, 0 >> \o Pattern(16, 1),        \* AT_RAND
      << AT_MAC, 5, 0, 0 >> \o Pattern(16, 40),        \* AT_MAC
      << 200, 1, 7, 8 >>,                              \* unknown type, 2 value bytes
      << 5, 2, 1, 2, 3, 4, 5, 0 >>,                    \* unknown type, 6 value bytes
      << AT_RAND, 1, 0, 0 >>,                          \* AT_RAND too short to decode
      << 200, 0, 0, 0 >>,                              \* LengthWords = 0
      << 200, 3, 0, 0 >>,                              \* declares 12 bytes, holds 4
      << 200 >>,                                       \* 1 byte: no room for a header
      << AT_RES, 2, 0, 17, 1, 2, 3, 9 >>,              \* AT_RES of 17 bits
      << AT_RES, 2, 0, 40, 1, 2, 3, 4 >>,              \* AT_RES of 40 bits, holds 4 bytes
      << AT_RES, 1, 255, 255 >> }                      \* AT_RES of 65535 bits, holds none

\* an EAP packet whose Length field says declared, followed by trailing bytes
Frame(c, id, declared, payload, trailing) ==
    << c, id >> \o PutUint16(declared) \o payload \o trailing

\* one TLV of each known type, of 1, 2, 5 and 6 words: the value bytes all
\* non-zero, or starting with a 2-byte field that holds a small number
SingleTlvs ==
    { << t, w >> \o Pattern(4 * w - 2, 50) : t \in KnownTypes, w \in { 1, 2, 5, 6 } }
    \cup
    { << t, w, 0, n >> \o Pattern(4 * w - 4, 51) :
        t \in KnownTypes, w \in { 1, 2, 5, 6 }, n \in { 0, 1, 3, 5, 16, 17 } }

BufferInputs ==
    { Frame(CodeRequest, 1, 8 + Len(Flatten(cs)), << TypeAKA, 1, 0, 0 >> \o Flatten(cs), << >>) :
        cs \in SeqsUpTo(Chunks, MaxTlvs) }
    \cup
    { Frame(c, 1, d, body, tr) :
        c \in { CodeRequest, CodeResponse, CodeSuccess, CodeFailure, 5 },
        d \in { 0, 3, 4, 5, 7, 8, 12, 13 },
        body \in { << >>,
                   << TypeAKAPrime, 5, 170, 187, 200, 1, 7, 8 >>,
                   << 7, 5, 170, 187, 200, 0, 7, 8 >> },
        tr \in { << >>, << 200, 1, 7, 8 >> } }
    \cup
    { Frame(CodeResponse, 7, 8 + Len(tlv), << TypeAKAPrime, 2, 0, 0 >> \o tlv, << >>) :
        tlv \in SingleTlvs }
    \cup
    { << >>, << 3 >>, << 3, 1, 0 >>, << 3, 1, 0, 4 >> }

(***************************************************************************)
(* Packet codec and MAC engine: the calls a caller makes on one Packet     *)
(***************************************************************************)
NoCall == [op |-> "none", key |-> << >>, kind |-> "ok", match |-> FALSE,
           pkt |-> NoPacket]
NoAttr == [kind |-> "nil"]
NoResult == [kind |-> "none"]
NoThreads == << >>
NoLock == [used |-> FALSE, holder |-> 0]

Init ==
    /\ thr = NoThreads
    /\ lock = NoLock
    /\ kdf = NoResult
    /\ \/ pkt \in PacketInputs /\ buf = << >>
       \/ pkt = NoPacket /\ buf \in BufferInputs
    /\ last = NoCall
    /\ prev = NoCall
    /\ old = NoPacket
    /\ attr = NoAttr
    /\ enc = NoResult
    /\ dec = NoResult
    /\ mppe = NoResult

\* data, err := pkt.Marshal()
MarshalOp ==
    /\ pkt # NoPacket
    /\ \E r \in { Marshal(pkt) } :
          /\ last' = [NoCall EXCEPT !.op = "Marshal", !.kind = r.kind]
          /\ buf' = IF r.kind = "ok" THEN r.bytes ELSE buf
    /\ prev' = last
    /\ old' = pkt
    /\ UNCHANGED <<pkt, attr, enc, dec, mppe, kdf, thr, lock>>

\* pkt, err := Parse(buf), on a buffer received or just marshalled
ParseOp ==
    /\ \/ pkt = NoPacket
       \/ last.op = "Marshal" /\ last.kind = "ok"
    /\ \E r \in { Parse(buf) } :
          /\ last' = [NoCall EXCEPT !.op = "Parse", !.kind = r.kind, !.pkt = r.pkt]
          /\ pkt' = IF r.kind = "ok" THEN r.pkt ELSE pkt
    /\ prev' = last
    /\ old' = pkt
    /\ UNCHANGED <<buf, attr, enc, dec, mppe, kdf, thr, lock>>

\* err := pkt.CalculateAndSetMac(kAut)
CalculateAndSetMacOp ==
    /\ pkt # NoPacket
    /\ \E kAut \in Keys :
          \E r \in { CalculateAndSetMac(pkt, kAut) } :
             /\ last' = [NoCall EXCEPT !.op = "CalculateAndSetMac", !.key = kAut,
                                       !.kind = r.kind]
             /\ pkt' = r.pkt
    /\ prev' = last
    /\ old' = pkt
    /\ UNCHANGED <<buf, attr, enc, dec, mppe, kdf, thr, lock>>

\* ok, err := pkt.VerifyMac(kAut)
VerifyMacOp ==
    /\ pkt # NoPacket
    /\ \E kAut \in Keys :
          \E r \in { VerifyMac(pkt, kAut) } :
             /\ last' = [NoCall EXCEPT !.op = "VerifyMac", !.key = kAut,
                                       !.kind = r.kind, !.match = r.match]
             /\ pkt' = r.pkt
    /\ prev' = last
    /\ old' = pkt
    /\ UNCHANGED <<buf, attr, enc, dec, mppe, kdf, thr, lock>>

Next ==
    \/ MarshalOp
    \/ ParseOp
    \/ CalculateAndSetMacOp
    \/ VerifyMacOp

Spec == Init /\ [][Next]_vars

(***************************************************************************)
(* Attribute codec: one attribute encoded, then its value part decoded     *)
(***************************************************************************)
MaxFieldLen == 4   \* short values of a byte-valued field: every length up to this
MaxVersions == 2   \* entries of a short AT_VERSION_LIST

\* lengths of a byte-valued field: the short ones, the fixed sizes of the
\* protocol and their neighbours, and those around the 1020-byte limit
FieldLens == (0..MaxFieldLen) \cup { 13, 14, 15, 16, 17, 18 } \cup (1014..1019)

Uint16Inputs == { 0, 1, 255, 256, 12345, 65535 }

AttrInputs ==
    { [kind |-> "AtRand", Rand |-> Pattern(n, 1)] : n \in FieldLens }
    \cup { [kind |-> "AtAutn", Autn |-> Pattern(n, 2)] : n \in FieldLens }
    \cup { [kind |-> "AtAuts", Auts |-> Pattern(n, 3)] : n \in FieldLens }
    \cup { [kind |-> "AtRes", Res |-> Pattern(n, 4)] : n \in FieldLens }
    \cup { [kind |-> "AtMac", MAC |-> Pattern(n, 5)] : n \in FieldLens }
    \cup { [kind |-> "AtMac", MAC |-> Zeros(16)] }
    \cup { [kind |-> "AtNonceMt", NonceMt |-> Pattern(n, 6)] : n \in FieldLens }
    \cup { [kind |-> "AtNonceS", NonceS |-> Pattern(n, 7)] : n \in FieldLens }
    \cup { [kind |-> "AtIv", IV |-> Pattern(n, 8)] : n \in FieldLens }
    \cup { [kind |-> "AtIdentity", Identity |-> Pattern(n, 9)] : n \in FieldLens }
    \cup { [kind |-> "AtKdfInput", NetworkName |-> Pattern(n, 10)] : n \in FieldLens }
    \cup { [kind |-> "AtNextPseudonym", Pseudonym |-> Pattern(n, 11)] : n \in FieldLens }
    \cup { [kind |-> "AtNextReauthId", Identity |-> Pattern(n, 12)] : n \in FieldLens }
    \cup { [kind |-> "AtCheckcode", Checkcode |-> Pattern(n, 13)] : n \in FieldLens }
    \cup { [kind |-> "AtEncrData", EncryptedData |-> Pattern(n, 14)] : n \in FieldLens }
    \cup { [kind |-> "GenericAttribute", AttrType |-> t, Data |-> Pattern(n, 15)] :
             t \in { 0, 5, 200, 255 }, n \in FieldLens }
    \cup { [kind |-> "AtPadding", Length |-> n] : n \in FieldLens \cup { 0 - 1 } }
    \cup { [kind |-> "AtKdf", KDF |-> v] : v \in Uint16Inputs }
    \cup { [kind |-> "AtSelectedVersion", Version |-> v] : v \in Uint16Inputs }
    \cup { [kind |-> "AtCounter", Counter |-> v] : v \in Uint16Inputs }
    \cup { [kind |-> "AtClientErrorCode", Code |-> v] : v \in Uint16Inputs }
    \cup { [kind |-> "AtNotification", S |-> s, P |-> q, Code |-> c] :
             s \in BOOLEAN, q \in BOOLEAN, c \in { 0, 1026, 16383, 16384, 32768, 65535 } }
    \cup { [kind |-> "AtVersionList", Versions |-> vs] :
             vs \in SeqsUpTo({ 1, 513, 65535 }, MaxVersions) }
    \cup { [kind |-> "AtVersionList", Versions |-> [i \in 1..n |-> i]] : n \in { 508, 509 } }
    \cup { [kind |-> k] : k \in { "AtPermanentIdReq", "AtAnyIdReq", "AtFullauthIdReq",
                                  "AtResultInd", "AtBidding", "AtCounterTooSmall" } }

AttrInit ==
    /\ thr = NoThreads
    /\ lock = NoLock
    /\ kdf = NoResult
    /\ attr \in AttrInputs
    /\ enc = NoResult
    /\ dec = NoResult
    /\ pkt = NoPacket
    /\ buf = << >>
    /\ last = NoCall
    /\ prev = NoCall
    /\ old = NoPacket
    /\ mppe = NoResult

\* b, err := attr.Marshal()
AttrMarshalOp ==
    /\ enc = NoResult
    /\ enc' = Attr_Marshal(attr)
    /\ UNCHANGED <<pkt, buf, last, prev, old, attr, dec, mppe, kdf, thr, lock>>

\* decodeAttribute on the type byte and the value part of the encoding, as
\* Parse hands them over: everything after the 2-byte header, padding included
AttrUnmarshalOp ==
    /\ enc # NoResult
    /\ enc.kind = "ok"
    /\ dec = NoResult
    /\ dec' = decodeAttribute(enc.bytes[1], Slice(enc.bytes, 2, Len(enc.bytes)))
    /\ UNCHANGED <<pkt, buf, last, prev, old, attr, enc, mppe, kdf, thr, lock>>

AttrNext ==
    \/ AttrMarshalOp
    \/ AttrUnmarshalOp

AttrSpec == AttrInit /\ [][AttrNext]_vars

(***************************************************************************)
(* MPPE key encryptor: one call of EncryptMPPEKey, a function of its       *)
(* arguments and of what the random source delivers                        *)
(***************************************************************************)
MaxKeyLen == 17    \* keys of every length up to this

MppeKeyLens == (0..MaxKeyLen) \cup { 31, 32, 33, 254, 255, 256 }
MppeSecrets == { << >>, << 114, 97, 100 >> }
MppeReqAuths == { Zeros(15), Zeros(16), Pattern(16, 20), Zeros(17) }
\* what rand.Read does: it fails, or it delivers two bytes
RandOutcomes ==
    { [ok |-> FALSE, bytes |-> << 0, 0 >>] }
    \cup { [ok |-> TRUE, bytes |-> << x, y >>] : x \in { 0, 1, 127, 128, 255 }, y \in { 0, 255 } }

MppeInit ==
    /\ thr = NoThreads
    /\ lock = NoLock
    /\ kdf = NoResult
    /\ mppe = NoResult
    /\ attr = NoAttr
    /\ enc = NoResult
    /\ dec = NoResult
    /\ pkt = NoPacket
    /\ buf = << >>
    /\ last = NoCall
    /\ prev = NoCall
    /\ old = NoPacket

\* out, err := EncryptMPPEKey(key, secret, reqAuth)
EncryptMPPEKeyOp ==
    /\ mppe = NoResult
    /\ \E n \in MppeKeyLens, secret \in MppeSecrets, reqAuth \in MppeReqAuths,
          rnd \in RandOutcomes :
          mppe' = [key |-> Pattern(n, 30), secret |-> secret, reqAuth |-> reqAuth,
                   rnd |-> rnd,
                   out |-> EncryptMPPEKey(Pattern(n, 30), secret, reqAuth, rnd)]
    /\ UNCHANGED <<pkt, buf, last, prev, old, attr, enc, dec, kdf, thr, lock>>

MppeNext == EncryptMPPEKeyOp

MppeSpec == MppeInit /\ [][MppeNext]_vars

(***************************************************************************)
(* Properties of the packet codec and the MAC engine, checked under Spec   *)
(***************************************************************************)
\* an attribute in the form its own encoding decodes to
CanonicalAttr(a) ==
    CASE a.kind = "AtMac" -> Len(a.MAC) = 16
      [] a.kind = "AtNotification" -> a.Code < 16384
      [] a.kind = "AtPadding" -> a.Length >= 0 /\ (2 + a.Length) % 4 = 0
      [] a.kind = "AtCheckcode" -> Len(a.Checkcode) % 4 = 0
      [] a.kind = "AtEncrData" -> Len(a.EncryptedData) % 4 = 0
      [] a.kind = "GenericAttribute" ->
            a.AttrType \notin KnownTypes /\ (2 + Len(a.Data)) % 4 = 0
      [] OTHER -> TRUE

\* a Packet in the form the wire can carry: only an AKA/AKA' Request or
\* Response has a Type, a Subtype and attributes
Canonical(p) ==
    /\ \/ /\ p.Code \in { CodeRequest, CodeResponse }
          /\ p.Type \in { TypeAKA, TypeAKAPrime }
       \/ /\ p.Type = 0
          /\ p.Subtype = 0
          /\ p.Attributes = << >>
    /\ \A k \in 1..Len(p.Attributes) : CanonicalAttr(p.Attributes[k])

\* C1 as stated: for every Packet P for which Marshal(P) succeeds,
\* Parse(Marshal(P)) succeeds and returns a Packet equal to P.
C1_RoundTripEveryPacket ==
    (last.op = "Parse" /\ prev.op = "Marshal" /\ prev.kind = "ok")
        => (last.kind = "ok" /\ last.pkt = old)

\* C1, amended: for every Packet P in wire-canonical form for which Marshal(P)
\* succeeds, Parse(Marshal(P)) succeeds and returns a Packet equal to P (same
\* Code, Identifier, Type, Subtype and attribute list).
C1_RoundTripCanonical ==
    (last.op = "Parse" /\ prev.op = "Marshal" /\ prev.kind = "ok" /\ Canonical(old))
        => (last.kind = "ok" /\ last.pkt = old)

C1_Witness ==
    /\ last.op = "Parse" /\ prev.op = "Marshal" /\ prev.kind = "ok"
    /\ Canonical(old)
    /\ old.Type = TypeAKA
    /\ Len(old.Attributes) = 2
    /\ last.pkt = old

\* C2: for every Packet P of Type AKA or AKA' that holds an AT_MAC and marshals
\* successfully, and every key K, CalculateAndSetMac(K) succeeds and VerifyMac(K)
\* called right after it returns match = true with no error.
C2_MacDeterminism ==
    /\ (/\ last.op = "CalculateAndSetMac"
        /\ old.Type \in { TypeAKA, TypeAKAPrime }
        /\ FindMac(old) # 0
        /\ Marshal(old).kind = "ok")
           => last.kind = "ok"
    /\ (/\ last.op = "VerifyMac"
        /\ prev.op = "CalculateAndSetMac"
        /\ prev.kind = "ok"
        /\ prev.key = last.key)
           => (last.kind = "ok" /\ last.match)

C2_Witness ==
    /\ last.op = "VerifyMac"
    /\ prev.op = "CalculateAndSetMac" /\ prev.kind = "ok" /\ prev.key = last.key
    /\ last.match
    /\ Len(old.Attributes) = 2
    /\ FindMac(old) = 2

\* C3 as stated: VerifyMac leaves the Packet unchanged on every outcome after
\* AT_MAC was located: the AT_MAC value (bytes and length) and every other field
\* are what they were before the call, for every AT_MAC value held on entry.
C3_VerifyMacLeavesPacket ==
    (last.op = "VerifyMac" /\ FindMac(old) # 0) => pkt = old

\* the declared Length of an EAP frame of at least 4 bytes
Declared(b) == b[3] * 256 + b[4]

\* C6 as stated: every buffer of at least 4 bytes with Code Success or Failure
\* and a declared Length within the buffer parses to a header-only Packet.
C6_SuccessFailureHeaderOnly ==
    (/\ last.op = "Parse"
     /\ Len(buf) >= 4
     /\ buf[1] \in { CodeSuccess, CodeFailure }
     /\ Declared(buf) <= Len(buf))
        => /\ last.kind = "ok"
           /\ last.pkt = [ZeroPacket EXCEPT !.Code = buf[1], !.Identifier = buf[2]]

\* an AKA/AKA' Request or Response with a complete method header
IsAkaFrame(b) ==
    /\ Len(b) >= 8
    /\ Declared(b) >= 8
    /\ Declared(b) <= Len(b)
    /\ b[1] \in { CodeRequest, CodeResponse }
    /\ b[5] \in { TypeAKA, TypeAKAPrime }

\* the attribute stream of such a frame
AttrStream(b) == SubSeq(b, 9, Declared(b))

\* walking the stream s from byte offset off by the length bytes alone: some
\* attribute header has fewer than 2 bytes left, a LengthWords of 0, or a
\* length beyond the bytes remaining
RECURSIVE BadFraming(_, _)
BadFraming(s, off) ==
    IF off >= Len(s)
    THEN FALSE
    ELSE \/ Len(s) - off < 2
         \/ s[off + 2] = 0
         \/ s[off + 2] * 4 > Len(s) - off
         \/ BadFraming(s, off + s[off + 2] * 4)

\* C7: Parse returns an error and no Packet whenever the buffer is shorter than
\* 4 bytes, the declared Length exceeds the buffer, or the attribute stream of
\* an AKA/AKA' Request/Response is badly framed, also after earlier attributes
\* decoded; the caller's Packet is not touched.
C7_MalformedIsError ==
    (/\ last.op = "Parse"
     /\ \/ Len(buf) < 4
        \/ Declared(buf) > Len(buf)
        \/ IsAkaFrame(buf) /\ BadFraming(AttrStream(buf), 0))
        => /\ last.kind = "err"
           /\ last.pkt = NoPacket
           /\ pkt = old

\* a badly framed attribute after one that decodes
C7_Witness ==
    /\ last.op = "Parse"
    /\ last.kind = "err"
    /\ IsAkaFrame(buf)
    /\ Len(AttrStream(buf)) > 4
    /\ AttrStream(buf)[1] = 200
    /\ AttrStream(buf)[2] = 1
    /\ BadFraming(AttrStream(buf), 4)

\* the TLVs of a well-framed stream, in order
RECURSIVE Tlvs(_, _)
Tlvs(s, off) ==
    IF off >= Len(s)
    THEN << >>
    ELSE << SubSeq(s, off + 1, off + s[off + 2] * 4) >> \o Tlvs(s, off + s[off + 2] * 4)

\* C10: an attribute whose type code is none of the 27 known ones does not make
\* Parse fail; it is decoded to a GenericAttribute holding the type code and the
\* value bytes verbatim, and Marshal re-encodes it to exactly the TLV parsed.
C10_UnknownTypePassthrough ==
    (/\ last.op = "Parse"
     /\ IsAkaFrame(buf)
     /\ ~BadFraming(AttrStream(buf), 0))
        => /\ (\A k \in 1..Len(Tlvs(AttrStream(buf), 0)) :
                  Tlvs(AttrStream(buf), 0)[k][1] \notin KnownTypes)
              => last.kind = "ok"
           /\ last.kind = "ok"
              => /\ Len(last.pkt.Attributes) = Len(Tlvs(AttrStream(buf), 0))
                 /\ \A k \in 1..Len(last.pkt.Attributes) :
                       Tlvs(AttrStream(buf), 0)[k][1] \notin KnownTypes
                       => /\ last.pkt.Attributes[k] =
                               [kind |-> "GenericAttribute",
                                AttrType |-> Tlvs(AttrStream(buf), 0)[k][1],
                                Data |-> Tail(Tail(Tlvs(AttrStream(buf), 0)[k]))]
                          /\ Attr_Marshal(last.pkt.Attributes[k]) =
                               Ok(Tlvs(AttrStream(buf), 0)[k])

C10_Witness ==
    /\ last.op = "Parse"
    /\ last.kind = "ok"
    /\ Len(last.pkt.Attributes) = 2
    /\ last.pkt.Attributes[1].kind = "AtRand"
    /\ last.pkt.Attributes[2].kind = "GenericAttribute"
    /\ last.pkt.Attributes[2].AttrType = 5
    /\ Len(last.pkt.Attributes[2].Data) = 6

(***************************************************************************)
(* Properties of the attribute codec, checked under AttrSpec               *)
(***************************************************************************)
\* the length of an attribute's value on the wire, by the layout of its variant
ValueLen(a) ==
    CASE a.kind = "AtRand" -> Len(a.Rand)
      [] a.kind = "AtAutn" -> Len(a.Autn)
      [] a.kind = "AtAuts" -> Len(a.Auts)
      [] a.kind = "AtRes" -> 2 + Len(a.Res)
      [] a.kind = "AtMac" -> IF Len(a.MAC) = 0 THEN 18 ELSE 2 + Len(a.MAC)
      [] a.kind = "AtNonceMt" -> 2 + Len(a.NonceMt)
      [] a.kind = "AtNonceS" -> 2 + Len(a.NonceS)
      [] a.kind = "AtIv" -> 2 + Len(a.IV)
      [] a.kind = "AtIdentity" -> 2 + Len(a.Identity)
      [] a.kind = "AtKdfInput" -> 2 + Len(a.NetworkName)
      [] a.kind = "AtNextPseudonym" -> 2 + Len(a.Pseudonym)
      [] a.kind = "AtNextReauthId" -> 2 + Len(a.Identity)
      [] a.kind = "AtCheckcode" -> 2 + Len(a.Checkcode)
      [] a.kind = "AtEncrData" -> 2 + Len(a.EncryptedData)
      [] a.kind = "AtVersionList" -> 2 + 2 * Len(a.Versions)
      [] a.kind = "AtPadding" -> a.Length
      [] a.kind = "GenericAttribute" -> Len(a.Data)
      [] OTHER -> 2

RoundUp(n, m) == ((n + m - 1) \div m) * m

\* the field of a fixed-size variant has the size the variant demands
FixedSizeOk(a) ==
    CASE a.kind = "AtRand" -> Len(a.Rand) = 16
      [] a.kind = "AtAutn" -> Len(a.Autn) = 16
      [] a.kind = "AtAuts" -> Len(a.Auts) = 14
      [] a.kind = "AtMac" -> Len(a.MAC) = 0 \/ Len(a.MAC) = 16
      [] a.kind = "AtNonceMt" -> Len(a.NonceMt) = 16
      [] a.kind = "AtNonceS" -> Len(a.NonceS) = 16
      [] a.kind = "AtIv" -> Len(a.IV) = 16
      [] OTHER -> TRUE

\* the TLV framing of an encoded attribute
Framed(b, a) ==
    /\ Len(b) % 4 = 0
    /\ Len(b) <= 1020
    /\ Len(b) = RoundUp(2 + ValueLen(a), 4)
    /\ b[1] = AttrTypeOf(a)
    /\ b[2] = Len(b) \div 4
    /\ \A k \in (2 + ValueLen(a) + 1)..Len(b) : b[k] = 0

\* C8 as stated: whenever encoding succeeds the encoded attribute is framed
\* (length a multiple of 4 and at most 1020, byte 0 the type code, byte 1 the
\* length in words, zero after the value), and encoding fails exactly when
\* 2 + value length rounded up to a multiple of 4 exceeds 1020.
C8_FailsExactlyOnLength ==
    enc # NoResult
        => /\ enc.kind = "ok" => Framed(enc.bytes, attr)
           /\ enc.kind # "ok" <=> RoundUp(2 + ValueLen(attr), 4) > 1020

\* C8, amended: whenever encoding succeeds the encoded attribute is framed;
\* encoding returns an error exactly when the rounded length exceeds 1020 or a
\* fixed-size variant holds a field of another size, and it panics exactly for
\* an AT_PADDING of negative Length.
C8_Framing ==
    enc # NoResult
        => /\ enc.kind = "ok" => Framed(enc.bytes, attr)
           /\ enc.kind = "err"
                <=> (RoundUp(2 + ValueLen(attr), 4) > 1020 \/ ~FixedSizeOk(attr))
           /\ enc.kind = "panic" <=> (attr.kind = "AtPadding" /\ attr.Length < 0)

\* the longest identity that still encodes: 1019 bytes and one byte of padding
C8_Witness ==
    /\ enc # NoResult
    /\ enc.kind = "ok"
    /\ attr.kind = "AtIdentity"
    /\ Len(attr.Identity) = 1015
    /\ Len(enc.bytes) = 1020
    /\ enc.bytes[1020] = 0

RoundTripKinds ==
    { "AtRand", "AtAutn", "AtAuts", "AtNonceMt", "AtNonceS", "AtIv", "AtMac", "AtRes",
      "AtIdentity", "AtKdfInput", "AtNextPseudonym", "AtNextReauthId", "AtKdf",
      "AtCounter", "AtSelectedVersion", "AtClientErrorCode", "AtVersionList" }

\* C9: for every attribute of a fixed-length or length-prefixed variant (AT_MAC
\* with a 16-byte value) whose encoding succeeds, decoding the value part of the
\* encoding, padding included, yields an attribute with the same value.
C9_AttributeRoundTrip ==
    (/\ dec # NoResult
     /\ attr.kind \in RoundTripKinds
     /\ attr.kind = "AtMac" => Len(attr.MAC) = 16)
        => /\ dec.kind = "ok"
           /\ dec.attr = attr

\* a 3-byte RES, decoded from a value part that ends in 3 bytes of padding
C9_Witness ==
    /\ dec # NoResult
    /\ dec.kind = "ok"
    /\ attr.kind = "AtRes"
    /\ Len(attr.Res) = 3
    /\ Len(enc.bytes) = 8
    /\ dec.attr = attr

(***************************************************************************)
(* Properties of the MPPE key encryptor, checked under MppeSpec            *)
(***************************************************************************)
\* C4 as stated: for a key of 1..255 bytes and a 16-byte requestAuthenticator
\* the output length is the smallest multiple of 16 not less than 2 + 1 + n
\* (48 for a 32-byte key).
C4_OutputLength ==
    (/\ mppe # NoResult
     /\ Len(mppe.key) >= 1
     /\ Len(mppe.key) <= 255
     /\ Len(mppe.reqAuth) = 16
     /\ mppe.out.kind = "ok")
        => Len(mppe.out.bytes) = RoundUp(2 + 1 + Len(mppe.key), 16)

\* C5: on every successful call the first two output bytes are the salt (the
\* two bytes the random source delivered, the top bit of the first one forced)
\* and the most significant bit of output byte 0 is 1.
C5_SaltHighBit ==
    (mppe # NoResult /\ mppe.out.kind = "ok")
        => /\ Len(mppe.out.bytes) >= 2
           /\ mppe.out.bytes[1] >= 128
           /\ mppe.out.bytes[1] % 128 = mppe.rnd.bytes[1] % 128
           /\ mppe.out.bytes[2] = mppe.rnd.bytes[2]

\* the random source delivered a first byte with the top bit clear
C5_Witness ==
    /\ mppe # NoResult
    /\ mppe.out.kind = "ok"
    /\ mppe.rnd.bytes = << 1, 255 >>
    /\ Len(mppe.key) = 32
    /\ mppe.out.bytes[1] = 129

(***************************************************************************)
(* Marshal of long Packets: the specification BigSpec constructs Packets   *)
(* whose encoding is around the 65535 bytes the Length field can express   *)
(***************************************************************************)
MaxBigAttrs == 65   \* attributes of 1020 encoded bytes in a long Packet

\* an attribute whose encoding is n bytes long (n a multiple of 4, 4..1020)
AttrOfSize(n) == [kind |-> "GenericAttribute", AttrType |-> 200, Data |-> Zeros(n - 2)]

\* k attributes of 1020 bytes, then the attributes of `rest`
LongAttributes(k, rest) == [i \in 1..k |-> AttrOfSize(1020)] \o rest

BigPacketInputs ==
    { [h EXCEPT !.Attributes = LongAttributes(k, rest)] :
        h \in { Hdr(CodeRequest, 1, TypeAKA, 1), Hdr(CodeResponse, 2, TypeAKAPrime, 0),
                Hdr(CodeRequest, 3, 0, 0), Hdr(CodeSuccess, 4, 0, 0) },
        k \in { 0, 1 } \cup ((MaxBigAttrs - 2)..MaxBigAttrs),
        rest \in { << >>, << AttrOfSize(240) >>, << AttrOfSize(244) >>,
                   << AttrOfSize(248) >>, << AttrOfSize(252) >>,
                   << AttrOfSize(4), AttrOfSize(248) >> } }

BigInit ==
    /\ thr = NoThreads
    /\ lock = NoLock
    /\ kdf = NoResult
    /\ pkt \in BigPacketInputs
    /\ buf = << >>
    /\ last = NoCall
    /\ prev = NoCall
    /\ old = NoPacket
    /\ attr = NoAttr
    /\ enc = NoResult
    /\ dec = NoResult
    /\ mppe = NoResult

BigNext == MarshalOp

BigSpec == BigInit /\ [][BigNext]_vars

\* the sum of the encoded lengths of attrs[lo..hi], each attribute taken by the
\* layout of its variant
RECURSIVE EncodedLen(_, _, _)
EncodedLen(attrs, lo, hi) ==
    IF lo > hi
    THEN 0
    ELSE IF lo = hi
    THEN RoundUp(2 + ValueLen(attrs[lo]), 4)
    ELSE EncodedLen(attrs, lo, (lo + hi) \div 2)
         + EncodedLen(attrs, (lo + hi) \div 2 + 1, hi)

\* the number of bytes Marshal emits after the 4-byte EAP header
EmittedLen(p) ==
    IF p.Code \in { CodeRequest, CodeResponse }
    THEN (IF p.Type \in { TypeAKA, TypeAKAPrime } THEN 4 ELSE 0)
         + EncodedLen(p.Attributes, 1, Len(p.Attributes))
    ELSE 0

\* C11: Marshal fails when 4 + emitted payload length exceeds 65535; whenever it
\* succeeds the big-endian Length field at bytes 2..3 of the output equals the
\* number of bytes returned, never a value wrapped modulo 65536.
C11_LengthField ==
    last.op = "Marshal"
        => /\ 4 + EmittedLen(old) > 65535 => last.kind = "err"
           /\ last.kind = "ok"
                => /\ Len(buf) >= 4
                   /\ buf[3] * 256 + buf[4] = Len(buf)
                   /\ Len(buf) = 4 + EmittedLen(old)

\* a Packet whose encoding would be 65536 bytes, the first length that wraps
C11_Witness ==
    /\ last.op = "Marshal"
    /\ last.kind = "err"
    /\ 4 + EmittedLen(old) = 65536

(***************************************************************************)
(* Errors of the MAC engine, checked under Spec                            *)
(***************************************************************************)
\* p with the value of its first AT_MAC replaced by 16 zero bytes
MacZeroed(p) ==
    IF FindMac(p) = 0 THEN p ELSE SetMac(p, FindMac(p), Zeros(16))

\* C12 as stated: CalculateAndSetMac and VerifyMac return an error when the
\* Packet has no AT_MAC, when its Type is neither AKA nor AKA', or when
\* marshaling the Packet fails; VerifyMac then reports no match.
C12_ErrorOnEveryFailure ==
    (/\ last.op \in { "CalculateAndSetMac", "VerifyMac" }
     /\ \/ FindMac(old) = 0
        \/ old.Type \notin { TypeAKA, TypeAKAPrime }
        \/ Marshal(old).kind # "ok")
        => (last.kind = "err" /\ ~last.match)

\* C12, amended: both calls return an error when the Packet has no AT_MAC, and,
\* when it has one, when marshaling the Packet with that AT_MAC zeroed returns
\* an error or the Type is neither AKA nor AKA'; they panic when that marshal
\* panics.  A match is never reported together with an error or a panic.
C12_ErrorOnFailure ==
    last.op \in { "CalculateAndSetMac", "VerifyMac" }
        => /\ FindMac(old) = 0 => last.kind = "err"
           /\ (FindMac(old) # 0 /\ Marshal(MacZeroed(old)).kind = "panic")
                => last.kind = "panic"
           /\ (/\ FindMac(old) # 0
               /\ \/ Marshal(MacZeroed(old)).kind = "err"
                  \/ /\ Marshal(MacZeroed(old)).kind = "ok"
                     /\ old.Type \notin { TypeAKA, TypeAKAPrime })
                => last.kind = "err"
           /\ last.kind # "ok" => ~last.match

\* VerifyMac on a Packet whose AT_MAC is found but whose Type is not AKA/AKA'
C12_Witness ==
    /\ last.op = "VerifyMac"
    /\ last.kind = "err"
    /\ ~last.match
    /\ FindMac(old) # 0
    /\ old.Type = 0
    /\ Marshal(MacZeroed(old)).kind = "ok"

(***************************************************************************)
(* Errors of the MPPE key encryptor, checked under MppeSpec                *)
(***************************************************************************)
\* C13: EncryptMPPEKey returns an error and no output when the key length is 0
\* or above 255, when requestAuthenticator is not exactly 16 bytes, or when the
\* random source fails to deliver the salt; no ciphertext is returned then.
C13_MppeErrors ==
    (/\ mppe # NoResult
     /\ \/ Len(mppe.key) = 0
        \/ Len(mppe.key) > 255
        \/ Len(mppe.reqAuth) # 16
        \/ ~mppe.rnd.ok)
        => /\ mppe.out.kind = "err"
           /\ mppe.out.bytes = << >>

\* valid arguments, and the random source fails
C13_Witness ==
    /\ mppe # NoResult
    /\ Len(mppe.key) = 32
    /\ Len(mppe.reqAuth) = 16
    /\ ~mppe.rnd.ok
    /\ mppe.out.kind = "err"

(***************************************************************************)
(* Key derivation (kdf.go).  SHA-1 is abstracted like the other digests.   *)
(***************************************************************************)
Sha1(data) == Digest(4, << >>, data, 20)

\* []byte("EAP-AKA'")
EapAkaPrimeLabel == << 69, 65, 80, 45, 65, 75, 65, 39 >>

\* prfGenAKA: the loop `for len(output) < outputLen`, and output[:outputLen]
RECURSIVE prfGenAKA_Loop(_, _, _, _)
RECURSIVE prfGenAKA_Append(_, _, _, _)
\* output = append(output, current...)
prfGenAKA_Append(key, current, output, outputLen) ==
    prfGenAKA_Loop(key, current, output \o current, outputLen)

prfGenAKA_Loop(key, current, output, outputLen) ==
    IF Len(output) < outputLen
    THEN prfGenAKA_Append(key, Sha1(key \o current), output, outputLen)
    ELSE Slice(output, 0, outputLen)

prfGenAKA(key, seed, outputLen) ==
    prfGenAKA_Append(key, Sha1(key \o seed), << >>, outputLen)

\* prfPlusIKEv2: the loop, counter being a byte
RECURSIVE prfPlusIKEv2_Loop(_, _, _, _, _, _)
RECURSIVE prfPlusIKEv2_Append(_, _, _, _, _, _)
\* output = append(output, current...); counter++
prfPlusIKEv2_Append(key, seed, current, output, counter, outputLen) ==
    prfPlusIKEv2_Loop(key, seed, current, output \o current, (counter + 1) % 256, outputLen)

prfPlusIKEv2_Loop(key, seed, current, output, counter, outputLen) ==
    IF Len(output) < outputLen
    THEN prfPlusIKEv2_Append(key, seed,
             HmacSha256(key, (IF counter > 1 THEN current ELSE << >>)
                             \o seed \o << counter >>),
             output, counter, outputLen)
    ELSE Slice(output, 0, outputLen)

prfPlusIKEv2(key, seed, outputLen) ==
    prfPlusIKEv2_Loop(key, seed, << >>, << >>, 1, outputLen)

\* the AkaKeys literal over keyBlock
DeriveKeysAKA_Split(keyBlock) ==
    [K_encr |-> Slice(keyBlock, 0, 16),
     K_aut |-> Slice(keyBlock, 16, 32),
     MSK |-> Slice(keyBlock, 32, 96),
     EMSK |-> Slice(keyBlock, 96, 160)]

\* a faulty variant: MK is hashed over identity | CK | IK
DeriveKeysAKA_SwappedKeys(identity, ck, ik) ==
    DeriveKeysAKA_Split(prfGenAKA(Sha1(identity \o ck \o ik), << 0 >>, 160))

DeriveKeysAKA(identity, ck, ik) ==
    DeriveKeysAKA_Split(prfGenAKA(Sha1(identity \o ik \o ck), << 0 >>, 160))

\* the AkaPrimeKeys literal over keyBlock
DeriveKeysAKAPrime_Split(keyBlock) ==
    [K_encr |-> Slice(keyBlock, 0, 16),
     K_aut |-> Slice(keyBlock, 16, 48),
     K_re |-> Slice(keyBlock, 48, 80),
     MSK |-> Slice(keyBlock, 80, 144),
     EMSK |-> Slice(keyBlock, 144, 208)]

\* a faulty variant: K_aut is cut as the 16 bytes it has in EAP-AKA
DeriveKeysAKAPrime_ShortKaut(identity, ckPrime, ikPrime) ==
    [K_encr |-> Slice(prfPlusIKEv2(ikPrime \o ckPrime, EapAkaPrimeLabel \o identity, 208), 0, 16),
     K_aut |-> Slice(prfPlusIKEv2(ikPrime \o ckPrime, EapAkaPrimeLabel \o identity, 208), 16, 32),
     K_re |-> Slice(prfPlusIKEv2(ikPrime \o ckPrime, EapAkaPrimeLabel \o identity, 208), 32, 64),
     MSK |-> Slice(prfPlusIKEv2(ikPrime \o ckPrime, EapAkaPrimeLabel \o identity, 208), 64, 128),
     EMSK |-> Slice(prfPlusIKEv2(ikPrime \o ckPrime, EapAkaPrimeLabel \o identity, 208), 128, 192)]

DeriveKeysAKAPrime(identity, ckPrime, ikPrime) ==
    DeriveKeysAKAPrime_Split(
        prfPlusIKEv2(ikPrime \o ckPrime, EapAkaPrimeLabel \o identity, 208))

\* the closure mkSeed of DeriveCKPrimeIKPrime
mkSeed(anId, fc) ==
    << fc >> \o EapAkaPrimeLabel \o << 0, 8 >> \o anId
        \o << ((Len(anId) % 65536) \div 256) % 256, Len(anId) % 256 >>

\* a faulty variant: IK' is derived with the function code of CK'
DeriveCKPrimeIKPrime_SameCode(ck, ik, netName) ==
    [ckPrime |-> Slice(prfPlusIKEv2(ik \o ck, mkSeed(netName, 32), 32), 0, 16),
     ikPrime |-> Slice(prfPlusIKEv2(ik \o ck, mkSeed(netName, 32), 32), 0, 16)]

DeriveCKPrimeIKPrime(ck, ik, netName) ==
    [ckPrime |-> Slice(prfPlusIKEv2(ik \o ck, mkSeed(netName, 32), 32), 0, 16),
     ikPrime |-> Slice(prfPlusIKEv2(ik \o ck, mkSeed(netName, 33), 32), 0, 16)]

(***************************************************************************)
(* Key derivation: one derivation, or CK'/IK' derived and fed into the     *)
(* EAP-AKA' key hierarchy                                                  *)
(***************************************************************************)
MaxIdentityLen == 3   \* identities and network names of every length up to this

Identities ==
    { Pattern(n, 50) : n \in 0..MaxIdentityLen } \cup { Pattern(40, 51) }
KeyInputs == { Zeros(16), Pattern(16, 60), Pattern(16, 61), Pattern(3, 62) }
NetNames == { Pattern(n, 70) : n \in 0..MaxIdentityLen } \cup { << 87, 76, 65, 78 >> }

KdfCall(op, identity, ck, ik, netName, out) ==
    [op |-> op, identity |-> identity, ck |-> ck, ik |-> ik, netName |-> netName,
     out |-> out]

KdfInit ==
    /\ thr = NoThreads
    /\ lock = NoLock
    /\ kdf = NoResult
    /\ mppe = NoResult
    /\ attr = NoAttr
    /\ enc = NoResult
    /\ dec = NoResult
    /\ pkt = NoPacket
    /\ buf = << >>
    /\ last = NoCall
    /\ prev = NoCall
    /\ old = NoPacket

\* keys := DeriveKeysAKA(identity, ck, ik)
DeriveKeysAKAOp ==
    /\ kdf = NoResult
    /\ \E identity \in Identities, ck \in KeyInputs, ik \in KeyInputs :
          kdf' = KdfCall("DeriveKeysAKA", identity, ck, ik, << >>,
                         DeriveKeysAKA(identity, ck, ik))
    /\ UNCHANGED <<pkt, buf, last, prev, old, attr, enc, dec, mppe, thr, lock>>

\* ckPrime, ikPrime := DeriveCKPrimeIKPrime(ck, ik, netName)
DeriveCKPrimeIKPrimeOp ==
    /\ kdf = NoResult
    /\ \E ck \in KeyInputs, ik \in KeyInputs, netName \in NetNames :
          kdf' = KdfCall("DeriveCKPrimeIKPrime", << >>, ck, ik, netName,
                         DeriveCKPrimeIKPrime(ck, ik, netName))
    /\ UNCHANGED <<pkt, buf, last, prev, old, attr, enc, dec, mppe, thr, lock>>

\* keys := DeriveKeysAKAPrime(identity, ckPrime, ikPrime) on keys given
DeriveKeysAKAPrimeOp ==
    /\ kdf = NoResult
    /\ \E identity \in Identities, ck \in KeyInputs, ik \in KeyInputs :
          kdf' = KdfCall("DeriveKeysAKAPrime", identity, ck, ik, << >>,
                         DeriveKeysAKAPrime(identity, ck, ik))
    /\ UNCHANGED <<pkt, buf, last, prev, old, attr, enc, dec, mppe, thr, lock>>

\* keys := DeriveKeysAKAPrime(identity, ckPrime, ikPrime) on the CK' and IK'
\* that DeriveCKPrimeIKPrime just returned
DeriveKeysAKAPrimeChainedOp ==
    /\ kdf # NoResult
    /\ kdf.op = "DeriveCKPrimeIKPrime"
    /\ \E identity \in Identities :
          kdf' = KdfCall("DeriveKeysAKAPrime", identity, kdf.out.ckPrime, kdf.out.ikPrime,
                         << >>,
                         DeriveKeysAKAPrime(identity, kdf.out.ckPrime, kdf.out.ikPrime))
    /\ UNCHANGED <<pkt, buf, last, prev, old, attr, enc, dec, mppe, thr, lock>>

KdfNext ==
    \/ DeriveKeysAKAOp
    \/ DeriveCKPrimeIKPrimeOp
    \/ DeriveKeysAKAPrimeOp
    \/ DeriveKeysAKAPrimeChainedOp

KdfSpec == KdfInit /\ [][KdfNext]_vars

(***************************************************************************)
(* Properties of the key derivation, checked under KdfSpec                 *)
(***************************************************************************)
\* x(1) = SHA-1(MK || 0x00), x(i+1) = SHA-1(MK || x(i))
RECURSIVE AkaX(_, _)
AkaX(mk, i) ==
    IF i = 1 THEN Sha1(mk \o << 0 >>) ELSE Sha1(mk \o AkaX(mk, i - 1))

\* x1 || x2 || ... truncated to 160 bytes
AkaBlock(mk) == SubSeq(Flatten([i \in 1..8 |-> AkaX(mk, i)]), 1, 160)

\* C14: DeriveKeysAKA returns K_encr (16 bytes), K_aut (16), MSK (64) and EMSK
\* (64), the consecutive segments [0:16], [16:32], [32:96], [96:160] of the
\* block x1 || x2 || ... truncated to 160 bytes, MK = SHA-1(identity || IK || CK).
C14_AkaKeyBlock ==
    (kdf # NoResult /\ kdf.op = "DeriveKeysAKA")
        => /\ Len(kdf.out.K_encr) = 16
           /\ Len(kdf.out.K_aut) = 16
           /\ Len(kdf.out.MSK) = 64
           /\ Len(kdf.out.EMSK) = 64
           /\ kdf.out.K_encr \o kdf.out.K_aut \o kdf.out.MSK \o kdf.out.EMSK
                = AkaBlock(Sha1(kdf.identity \o kdf.ik \o kdf.ck))

C14_Witness ==
    /\ kdf # NoResult
    /\ kdf.op = "DeriveKeysAKA"
    /\ Len(kdf.identity) = 3
    /\ kdf.ck = Pattern(16, 60)
    /\ kdf.ik = Pattern(16, 61)
    /\ kdf.out.K_encr # kdf.out.K_aut
    /\ Len(kdf.out.EMSK) = 64

\* T1 = HMAC-SHA-256(key, seed || 0x01), Tn = HMAC-SHA-256(key, T(n-1) || seed || n)
RECURSIVE PrfPlusT(_, _, _)
PrfPlusT(key, seed, n) ==
    IF n = 1
    THEN HmacSha256(key, seed \o << 1 >>)
    ELSE HmacSha256(key, PrfPlusT(key, seed, n - 1) \o seed \o << n >>)

\* T1 || T2 || ... truncated to 208 bytes
AkaPrimeBlock(key, seed) ==
    SubSeq(Flatten([n \in 1..7 |-> PrfPlusT(key, seed, n)]), 1, 208)

\* C15: DeriveKeysAKAPrime returns K_encr (16 bytes), K_aut (32), K_re (32), MSK
\* (64) and EMSK (64), the consecutive segments of exactly 208 bytes of
\* PRF+(IK' || CK', "EAP-AKA'" || identity).
C15_AkaPrimeKeyBlock ==
    (kdf # NoResult /\ kdf.op = "DeriveKeysAKAPrime")
        => /\ Len(kdf.out.K_encr) = 16
           /\ Len(kdf.out.K_aut) = 32
           /\ Len(kdf.out.K_re) = 32
           /\ Len(kdf.out.MSK) = 64
           /\ Len(kdf.out.EMSK) = 64
           /\ kdf.out.K_encr \o kdf.out.K_aut \o kdf.out.K_re \o kdf.out.MSK
                \o kdf.out.EMSK
                = AkaPrimeBlock(kdf.ik \o kdf.ck, EapAkaPrimeLabel \o kdf.identity)

C15_Witness ==
    /\ kdf # NoResult
    /\ kdf.op = "DeriveKeysAKAPrime"
    /\ Len(kdf.identity) = 40
    /\ kdf.ck = Pattern(16, 60)
    /\ kdf.ik = Zeros(16)
    /\ Len(kdf.out.K_aut) = 32
    /\ kdf.out.K_aut # kdf.out.K_re

\* S = FC || "EAP-AKA'" || 0x00 0x08 || networkName || its length in 2 bytes
KdfS(fc, netName) ==
    << fc >> \o EapAkaPrimeLabel \o << 0, 8 >> \o netName
        \o << Len(netName) \div 256, Len(netName) % 256 >>

\* C20: DeriveCKPrimeIKPrime returns two 16-byte values, CK' the first 16 bytes
\* of the 32-byte PRF+(IK || CK, S) with function code 0x20 and IK' the same
\* with function code 0x21; CK and IK are as they were.
C20_CkPrimeIkPrime ==
    (kdf # NoResult /\ kdf.op = "DeriveCKPrimeIKPrime")
        => /\ Len(kdf.out.ckPrime) = 16
           /\ Len(kdf.out.ikPrime) = 16
           /\ kdf.out.ckPrime
                = SubSeq(PrfPlusT(kdf.ik \o kdf.ck, KdfS(32, kdf.netName), 1), 1, 16)
           /\ kdf.out.ikPrime
                = SubSeq(PrfPlusT(kdf.ik \o kdf.ck, KdfS(33, kdf.netName), 1), 1, 16)

C20_Witness ==
    /\ kdf # NoResult
    /\ kdf.op = "DeriveCKPrimeIKPrime"
    /\ kdf.netName = << 87, 76, 65, 78 >>
    /\ kdf.ck = Pattern(16, 60)
    /\ kdf.ik = Pattern(16, 61)
    /\ kdf.out.ckPrime # kdf.out.ikPrime

\* ---------------------------------------------------------------------------
\* Several callers of one Packet.  VerifyMac and CalculateAndSetMac are
\* sequences of statements on the shared *AtMac; a caller that takes no mutex
\* can be overtaken between any two of them.  The statements of one call are
\* the stages of VerifyMac and CalculateAndSetMac above, applied to the Packet
\* as it is when the statement runs.
\* ---------------------------------------------------------------------------
MaxThreads == 2

Threads == 1..MaxThreads

ThreadOps == { "VerifyMac", "CalculateAndSetMac", "Marshal" }

NewThread(op) ==
    [op |-> op, pc |-> "start", key |-> << 9 >>, i |-> 0, receivedMac |-> << >>,
     data |-> Ok(<< >>), kind |-> "none", match |-> FALSE]

\* the received packets the callers share: AT_MAC of 16 bytes, of 5, and nil,
\* and a packet without AT_MAC
ConcPackets ==
    { [Hdr(CodeRequest, 1, t, 1) EXCEPT
          !.Attributes = << [kind |-> "AtRand", Rand |-> Pattern(16, 3)],
                            [kind |-> "AtMac", MAC |-> m] >>] :
        t \in { TypeAKA, TypeAKAPrime },
        m \in { Pattern(16, 7), Pattern(5, 7), << >> } }
    \cup { [Hdr(CodeRequest, 1, TypeAKA, 1) EXCEPT
              !.Attributes = << [kind |-> "AtRand", Rand |-> Pattern(16, 3)] >>] }

ConcInit ==
    /\ pkt \in ConcPackets
    /\ old = pkt
    /\ thr \in [Threads -> { NewThread(op) : op \in ThreadOps }]
    /\ lock \in { [used |-> u, holder |-> 0] : u \in BOOLEAN }
    /\ buf = << >>
    /\ last = NoCall
    /\ prev = NoCall
    /\ attr = NoAttr
    /\ enc = NoResult
    /\ dec = NoResult
    /\ mppe = NoResult
    /\ kdf = NoResult

\* mu.Lock() before the call, where the callers use the mutex
Locked(t) == IF lock.used THEN [lock EXCEPT !.holder = t] ELSE lock

\* mu.Unlock() after the call
Unlocked == [lock EXCEPT !.holder = 0]

CanEnter == ~lock.used \/ lock.holder = 0

Returned(t, kind, match) ==
    [thr EXCEPT ![t].pc = "done", ![t].kind = kind, ![t].match = match]

\* VerifyMac: the search loop, then receivedMac := copy of macAttr.MAC
VerifyMacSave(t) ==
    /\ thr[t].op = "VerifyMac"
    /\ thr[t].pc = "start"
    /\ CanEnter
    /\ \E i \in { FindMac(pkt) } :
         IF i = 0
         THEN /\ thr' = Returned(t, "err", FALSE)
              /\ lock' = lock
         ELSE /\ thr' = [thr EXCEPT ![t].pc = "saved", ![t].i = i,
                             ![t].receivedMac = Copy(Zeros(16), pkt.Attributes[i].MAC)]
              /\ lock' = Locked(t)
    /\ UNCHANGED <<pkt, buf, last, prev, old, attr, enc, dec, mppe, kdf>>

\* VerifyMac: macAttr.MAC = make([]byte, 16)
VerifyMacZero(t) ==
    /\ thr[t].op = "VerifyMac"
    /\ thr[t].pc = "saved"
    /\ pkt' = SetMac(pkt, thr[t].i, Zeros(16))
    /\ thr' = [thr EXCEPT ![t].pc = "zeroed"]
    /\ UNCHANGED <<buf, last, prev, old, attr, enc, dec, mppe, kdf, lock>>

\* CalculateAndSetMac: the search loop, then macAttr.MAC = make([]byte, 16)
CalculateAndSetMacZero(t) ==
    /\ thr[t].op = "CalculateAndSetMac"
    /\ thr[t].pc = "start"
    /\ CanEnter
    /\ \E i \in { FindMac(pkt) } :
         IF i = 0
         THEN /\ thr' = Returned(t, "err", FALSE)
              /\ pkt' = pkt
              /\ lock' = lock
         ELSE /\ thr' = [thr EXCEPT ![t].pc = "zeroed", ![t].i = i]
              /\ pkt' = SetMac(pkt, i, Zeros(16))
              /\ lock' = Locked(t)
    /\ UNCHANGED <<buf, last, prev, old, attr, enc, dec, mppe, kdf>>

\* both: data, err := p.Marshal(), reading the Packet as it is now
InnerMarshal(t) ==
    /\ thr[t].op \in { "VerifyMac", "CalculateAndSetMac" }
    /\ thr[t].pc = "zeroed"
    /\ thr' = [thr EXCEPT ![t].pc = "marshalled", ![t].data = Marshal(pkt)]
    /\ UNCHANGED <<pkt, buf, last, prev, old, attr, enc, dec, mppe, kdf, lock>>

\* VerifyMac: calculateMac, copy(macAttr.MAC, receivedMac), the comparison
VerifyMacRestore(t) ==
    /\ thr[t].op = "VerifyMac"
    /\ thr[t].pc = "marshalled"
    /\ \E r \in { VerifyMac_Marshalled(pkt, thr[t].key, thr[t].i,
                                       thr[t].receivedMac, thr[t].data) } :
         /\ pkt' = r.pkt
         /\ thr' = Returned(t, r.kind, r.match)
    /\ lock' = Unlocked
    /\ UNCHANGED <<buf, last, prev, old, attr, enc, dec, mppe, kdf>>

\* CalculateAndSetMac: calculateMac, copy(macAttr.MAC, mac)
CalculateAndSetMacSet(t) ==
    /\ thr[t].op = "CalculateAndSetMac"
    /\ thr[t].pc = "marshalled"
    /\ \E r \in { CalculateAndSetMac_Marshalled(pkt, thr[t].key, thr[t].i,
                                                thr[t].data) } :
         /\ pkt' = r.pkt
         /\ thr' = Returned(t, r.kind, FALSE)
    /\ lock' = Unlocked
    /\ UNCHANGED <<buf, last, prev, old, attr, enc, dec, mppe, kdf>>

\* a caller that only reads: p.Marshal()
MarshalRead(t) ==
    /\ thr[t].op = "Marshal"
    /\ thr[t].pc = "start"
    /\ CanEnter
    /\ \E r \in { Marshal(pkt) } :
         thr' = [Returned(t, r.kind, FALSE) EXCEPT ![t].data = r]
    /\ UNCHANGED <<pkt, buf, last, prev, old, attr, enc, dec, mppe, kdf, lock>>

ConcNext ==
    \E t \in Threads :
        \/ VerifyMacSave(t)
        \/ VerifyMacZero(t)
        \/ CalculateAndSetMacZero(t)
        \/ InnerMarshal(t)
        \/ VerifyMacRestore(t)
        \/ CalculateAndSetMacSet(t)
        \/ MarshalRead(t)

ConcSpec == ConcInit /\ [][ConcNext]_vars

\* the value of the (first) AT_MAC of p
MacOf(p) == IF FindMac(p) = 0 THEN << >> ELSE p.Attributes[FindMac(p)].MAC

AllDone == \A t \in Threads : thr[t].pc = "done"

OnlyVerifyMac == \A t \in Threads : thr[t].op = "VerifyMac"

\* the Packet held a MAC that is not all zero before the calls
HadMac == FindMac(old) # 0 /\ Copy(Zeros(16), MacOf(old)) # Zeros(16)

\* caller t read an all-zero AT_MAC: as the value VerifyMac saves, or in the
\* bytes Marshal returned
SeesZero(t) ==
    \/ /\ thr[t].op = "VerifyMac"
       /\ thr[t].pc \in { "saved", "zeroed", "marshalled", "done" }
       /\ thr[t].i # 0
       /\ thr[t].receivedMac = Zeros(16)
    \/ /\ thr[t].op = "Marshal"
       /\ thr[t].pc = "done"
       /\ thr[t].data = Marshal(MacZeroed(old))

\* the Packet after caller t's call alone, started on p
After(p, t) ==
    CASE thr[t].op = "VerifyMac" -> VerifyMac(p, thr[t].key).pkt
      [] thr[t].op = "CalculateAndSetMac" -> CalculateAndSetMac(p, thr[t].key).pkt
      [] OTHER -> p

RECURSIVE AfterAll(_, _, _)
AfterAll(p, order, n) ==
    IF n = 0 THEN p ELSE After(AfterAll(p, order, n - 1), order[n])

Orders == { o \in [Threads -> Threads] : \A a, b \in Threads : o[a] = o[b] => a = b }

\* C16: with the calls on one Packet serialized, no caller observes an
\* all-zero MAC in a Packet that held a MAC, and after two VerifyMac calls the
\* AT_MAC value is the value before both calls
C16_SerializedNoAnomaly ==
    lock.used =>
        /\ HadMac /\ ~(\E t \in Threads : thr[t].op = "CalculateAndSetMac")
              => \A t \in Threads : ~SeesZero(t)
        /\ AllDone /\ OnlyVerifyMac => MacOf(pkt) = MacOf(old)

\* C16, serialized calls are atomic: the Packet they leave is the Packet that
\* the calls leave when run one after the other in some order
C16_SerializedAtomic ==
    lock.used /\ AllDone => \E o \in Orders : pkt = AfterAll(old, o, MaxThreads)

\* C16, for a 16-byte AT_MAC: serialized, neither anomaly happens
C16_SerializedSixteen ==
    lock.used /\ Len(MacOf(old)) = 16 =>
        /\ HadMac /\ ~(\E t \in Threads : thr[t].op = "CalculateAndSetMac")
              => \A t \in Threads : ~SeesZero(t)
        /\ AllDone /\ OnlyVerifyMac => MacOf(pkt) = MacOf(old)

\* C16, the interleaving of two VerifyMac calls without serialization: the
\* second saves the all-zero value the first wrote, and the AT_MAC they leave
\* is not the value before both calls
C16_Witness ==
    /\ ~lock.used
    /\ AllDone
    /\ OnlyVerifyMac
    /\ Len(MacOf(old)) = 16
    /\ HadMac
    /\ \E t \in Threads : SeesZero(t)
    /\ MacOf(pkt) # MacOf(old)

\* C16, the interleaving of VerifyMac and a Marshal without serialization:
\* the Marshal returns the Packet with an all-zero MAC
C16_MarshalSeesZero ==
    /\ ~lock.used
    /\ HadMac
    /\ Len(MacOf(old)) = 16
    /\ \E t, u \in Threads :
         /\ thr[t].op = "Marshal"
         /\ SeesZero(t)
         /\ thr[t].data.kind = "ok"
         /\ thr[u].op = "VerifyMac"

\* C16, the same interleaving with CalculateAndSetMac in place of VerifyMac
C16_MarshalSeesZeroOfCalculate ==
    /\ ~lock.used
    /\ HadMac
    /\ Len(MacOf(old)) = 16
    /\ \E t, u \in Threads :
         /\ thr[t].op = "Marshal"
         /\ SeesZero(t)
         /\ thr[t].data.kind = "ok"
         /\ thr[u].op = "CalculateAndSetMac"

\* the encodings of the first n attributes, one after the other
RECURSIVE EncodedAttrs(_, _)
EncodedAttrs(attrs, n) ==
    IF n = 0
    THEN << >>
    ELSE EncodedAttrs(attrs, n - 1) \o Attr_Marshal(attrs[n]).bytes

\* Code, Identifier, Length, Type, Subtype, two zero bytes, the attributes
MethodLayout(p) ==
    << p.Code, p.Identifier,
       (8 + Len(EncodedAttrs(p.Attributes, Len(p.Attributes)))) \div 256,
       (8 + Len(EncodedAttrs(p.Attributes, Len(p.Attributes)))) % 256,
       p.Type, p.Subtype, 0, 0 >>
    \o EncodedAttrs(p.Attributes, Len(p.Attributes))

\* C17: for a Request or Response of Type AKA or AKA', a successful Marshal
\* returns Code, Identifier, the 2-byte big-endian Length, Type, Subtype, two
\* zero bytes and then the encoding of each attribute in list order, nothing
\* else; the call leaves the Packet unchanged, and a second call on the
\* unchanged Packet returns the same bytes.
C17_MarshalLayout ==
    [][ last'.op = "Marshal" /\ last'.kind = "ok"
        /\ pkt.Code \in { CodeRequest, CodeResponse }
        /\ pkt.Type \in { TypeAKA, TypeAKAPrime }
          => /\ buf' = MethodLayout(pkt)
             /\ pkt' = pkt
             /\ (last.op = "Marshal" /\ last.kind = "ok" => buf' = buf) ]_vars

\* a second successful Marshal of a Response of Type AKA' with two attributes
C17_Witness ==
    /\ last.op = "Marshal"
    /\ last.kind = "ok"
    /\ prev.op = "Marshal"
    /\ prev.kind = "ok"
    /\ pkt.Code \in { CodeRequest, CodeResponse }
    /\ pkt.Type \in { TypeAKA, TypeAKAPrime }
    /\ Len(pkt.Attributes) = 2
    /\ pkt.Attributes[1] # pkt.Attributes[2]
    /\ buf = MethodLayout(pkt)

\* Code, Identifier, Length and the attributes, no method header
PlainLayout(p) ==
    << p.Code, p.Identifier,
       (4 + Len(EncodedAttrs(p.Attributes, Len(p.Attributes)))) \div 256,
       (4 + Len(EncodedAttrs(p.Attributes, Len(p.Attributes)))) % 256 >>
    \o EncodedAttrs(p.Attributes, Len(p.Attributes))

\* the Packets C18 is about
NoMethodHeader(p) ==
    p.Code \in { CodeSuccess, CodeFailure } \/ p.Type \notin { TypeAKA, TypeAKAPrime }

\* C18 as stated: for a Packet of Code Success or Failure, or of a Type that is
\* neither AKA nor AKA', Marshal emits after the 4-byte header the encodings of
\* the attributes of the Packet and nothing else.
C18_AttributesAlways ==
    last.op = "Marshal" /\ last.kind = "ok" /\ NoMethodHeader(old)
        => buf = PlainLayout(old)

\* C18: for a Request or Response whose Type is neither AKA nor AKA', a
\* successful Marshal emits after the 4-byte header only the encodings of the
\* attributes; for every other Code Marshal succeeds and emits the 4-byte
\* header with Length = 4 alone, the attributes of the Packet left out; with
\* an empty attribute list the output is the 4-byte header with Length = 4.
C18_HeaderOnlyOutsideRequestResponse ==
    last.op = "Marshal" /\ NoMethodHeader(old)
        => /\ old.Code \in { CodeRequest, CodeResponse } /\ last.kind = "ok"
                => buf = PlainLayout(old)
           /\ old.Code \notin { CodeRequest, CodeResponse }
                => last.kind = "ok" /\ buf = << old.Code, old.Identifier, 0, 4 >>
           /\ old.Attributes = << >>
                => last.kind = "ok" /\ buf = << old.Code, old.Identifier, 0, 4 >>

\* Marshal of a Success Packet that holds an attribute Marshal can encode
C18_Witness ==
    /\ last.op = "Marshal"
    /\ last.kind = "ok"
    /\ old.Code = CodeSuccess
    /\ Len(old.Attributes) = 1
    /\ Attr_Marshal(old.Attributes[1]).kind = "ok"
    /\ buf = << CodeSuccess, old.Identifier, 0, 4 >>

\* Marshal of a Request of Type 7 that holds an attribute: no method header
C18_WitnessOtherType ==
    /\ last.op = "Marshal"
    /\ last.kind = "ok"
    /\ old.Code = CodeRequest
    /\ old.Type = 7
    /\ Len(old.Attributes) = 1
    /\ Len(buf) > 4
    /\ buf = PlainLayout(old)

\* HMAC(K, data) with the hash function the Type selects
TypeHmac(type, key, data) ==
    IF type = TypeAKA THEN HmacSha1(key, data) ELSE HmacSha256(key, data)

\* the first 16 bytes of HMAC(K, Marshal(p with the first AT_MAC zeroed))
ExpectedMac(p, key) ==
    SubSeq(TypeHmac(p.Type, key, Marshal(MacZeroed(p)).bytes), 1, 16)

\* C19: after a successful CalculateAndSetMac(K) the first AT_MAC of the Packet
\* holds the first 16 bytes of HMAC(K, Marshal(the Packet with that AT_MAC set
\* to 16 zero bytes)), HMAC-SHA-1 for Type AKA and HMAC-SHA-256 for Type AKA';
\* Code, Identifier, Type, Subtype and every other attribute are unchanged.
C19_MacValue ==
    last.op = "CalculateAndSetMac" /\ last.kind = "ok"
        => /\ FindMac(old) # 0
           /\ old.Type \in { TypeAKA, TypeAKAPrime }
           /\ Marshal(MacZeroed(old)).kind = "ok"
           /\ Len(MacOf(pkt)) = 16
           /\ MacOf(pkt) = ExpectedMac(old, last.key)
           /\ pkt = SetMac(old, FindMac(old), MacOf(pkt))

\* a successful call on an AKA' Packet whose AT_MAC, 5 bytes long before the
\* call, stands second in the list
C19_Witness ==
    /\ last.op = "CalculateAndSetMac"
    /\ last.kind = "ok"
    /\ old.Type = TypeAKAPrime
    /\ FindMac(old) = 2
    /\ Len(MacOf(old)) = 5
    /\ MacOf(pkt) = ExpectedMac(old, last.key)
    /\ MacOf(pkt) # Zeros(16)

(***************************************************************************)
(* The AT_NOTIFICATION word, checked under AttrSpec                        *)
(***************************************************************************)
\* the 16-bit word with bit 15 = S, bit 14 = P and bits 13..0 = the low 14
\* bits of the Code, as its two big-endian bytes
NotificationWord(sBit, pBit, code) ==
    << (IF sBit THEN 128 ELSE 0) + (IF pBit THEN 64 ELSE 0) + (code % 16384) \div 256,
       code % 256 >>

\* encoding S, P, Code gives the word, and decoding the word gives S, P and the
\* low 14 bits of the Code
NotificationCodec(sBit, pBit, code) ==
    /\ AtNotification_Marshal([kind |-> "AtNotification", S |-> sBit, P |-> pBit,
                               Code |-> code])
         = Ok(<< AT_NOTIFICATION, 1 >> \o NotificationWord(sBit, pBit, code))
    /\ AtNotification_Unmarshal(NotificationWord(sBit, pBit, code))
         = DecOk([kind |-> "AtNotification", S |-> sBit, P |-> pBit,
                  Code |-> code % 16384])

\* C21: AT_NOTIFICATION is encoded as one big-endian word with bit 15 = S,
\* bit 14 = P and bits 13..0 = Code; decoding gives back S, P and Code for
\* every Code in 0..16383; a Code above 16383 loses its two upper bits on
\* encode and leaves the encoded S and P bits as they are.  The attribute of
\* the state is checked through its encode and decode steps, and from the
\* attribute with Code 0 every Code of 16 bits with the same S and P.
C21_NotificationWord ==
    attr.kind = "AtNotification" /\ enc # NoResult
        => /\ enc = Ok(<< AT_NOTIFICATION, 1 >> \o NotificationWord(attr.S, attr.P, attr.Code))
           /\ (enc.bytes[3] \div 128 = 1) = attr.S
           /\ ((enc.bytes[3] \div 64) % 2 = 1) = attr.P
           /\ dec # NoResult
                => /\ dec.kind = "ok"
                   /\ dec.attr.S = attr.S
                   /\ dec.attr.P = attr.P
                   /\ dec.attr.Code = attr.Code % 16384
                   /\ attr.Code <= 16383 => dec.attr = attr
           /\ attr.Code = 0
                => \A code \in 0..65535 : NotificationCodec(attr.S, attr.P, code)

\* Code 65535 with S and P clear: encoded as 0x3FFF, decoded as Code 16383
C21_Witness ==
    /\ attr.kind = "AtNotification"
    /\ attr.Code = 65535
    /\ ~attr.S
    /\ ~attr.P
    /\ enc = Ok(<< AT_NOTIFICATION, 1, 63, 255 >>)
    /\ dec # NoResult
    /\ dec.kind = "ok"
    /\ dec.attr.Code = 16383
    /\ ~dec.attr.S
    /\ ~dec.attr.P

(***************************************************************************)
(* The bit length of AT_RES, checked under Spec                            *)
(***************************************************************************)
\* the bit length an AT_RES TLV declares, and the bytes that many bits take
ResBits(tlv) == tlv[3] * 256 + tlv[4]

ResBytes(bits) == (bits + 7) \div 8

\* what decoding a value part of 2 + have bytes that declares b bits has to
\* give: an error when fewer than ceil(b/8) bytes follow, else those bytes
ResDecoded(b, have) ==
    IF have < ResBytes(b)
    THEN DecErr
    ELSE DecOk([kind |-> "AtRes", Res |-> SubSeq(Pattern(have, 4), 1, ResBytes(b))])

\* C22: decoding AT_RES reads the 2-byte big-endian length in bits b and, for
\* every b in 0..65535, either yields exactly ceil(b/8) bytes taken from the
\* bytes after the length field or fails because fewer than ceil(b/8) bytes
\* follow.
C22_ResLength ==
    (/\ last.op = "Parse"
     /\ IsAkaFrame(buf)
     /\ ~BadFraming(AttrStream(buf), 0))
        => \A k \in 1..Len(Tlvs(AttrStream(buf), 0)) :
              Tlvs(AttrStream(buf), 0)[k][1] = AT_RES
                => /\ Len(Tlvs(AttrStream(buf), 0)[k]) - 4
                        < ResBytes(ResBits(Tlvs(AttrStream(buf), 0)[k]))
                      => last.kind = "err"
                   /\ last.kind = "ok"
                      => last.pkt.Attributes[k] =
                           [kind |-> "AtRes",
                            Res |-> SubSeq(Tlvs(AttrStream(buf), 0)[k], 5,
                                           4 + ResBytes(ResBits(Tlvs(AttrStream(buf), 0)[k])))]

\* C22, below the wrap: the same for the TLVs that declare at most 65528 bits,
\* and through AtRes.Unmarshal for every such b in front of 4 value bytes
C22_ResLengthBelowWrap ==
    (/\ last.op = "Parse"
     /\ IsAkaFrame(buf)
     /\ ~BadFraming(AttrStream(buf), 0))
        => /\ \A k \in 1..Len(Tlvs(AttrStream(buf), 0)) :
                 (/\ Tlvs(AttrStream(buf), 0)[k][1] = AT_RES
                  /\ ResBits(Tlvs(AttrStream(buf), 0)[k]) <= 65528)
                   => /\ Len(Tlvs(AttrStream(buf), 0)[k]) - 4
                           < ResBytes(ResBits(Tlvs(AttrStream(buf), 0)[k]))
                         => last.kind = "err"
                      /\ last.kind = "ok"
                         => last.pkt.Attributes[k] =
                              [kind |-> "AtRes",
                               Res |-> SubSeq(Tlvs(AttrStream(buf), 0)[k], 5,
                                              4 + ResBytes(ResBits(Tlvs(AttrStream(buf), 0)[k])))]
           /\ Len(buf) = 12 /\ buf[9] = AT_RES /\ ResBits(AttrStream(buf)) = 65535
                => \A b \in 0..65528 :
                      AtRes_Unmarshal(PutUint16(b) \o Pattern(4, 4)) = ResDecoded(b, 4)

\* C22, the wrap: an AT_RES that declares 65535 bits and holds no value byte
\* is decoded to an empty RES
C22_Wrapped ==
    /\ last.op = "Parse"
    /\ last.kind = "ok"
    /\ buf = << CodeRequest, 1, 0, 12, TypeAKA, 1, 0, 0, AT_RES, 1, 255, 255 >>
    /\ last.pkt.Attributes = << [kind |-> "AtRes", Res |-> << >>] >>

(***************************************************************************)
(* The branches of Parse after the EAP header, checked under Spec          *)
(***************************************************************************)
\* a header Parse accepts: 4 bytes at least, 4 <= declared Length <= size
ValidHeader(b) == Len(b) >= 4 /\ Declared(b) >= 4 /\ Declared(b) <= Len(b)

\* a Packet with nothing but Code and Identifier set
HeaderOnly(b) == Hdr(b[1], b[2], 0, 0)

\* b with its two reserved bytes cleared
ReservedCleared(b) == [b EXCEPT ![7] = 0, ![8] = 0]

\* C23: for a valid header whose Code is neither Success nor Failure, Parse
\* returns a Packet with only Code and Identifier set when the declared payload
\* is empty; otherwise Type is the first payload byte; a Type that is neither
\* 23 nor 50 gives the Packet with no Subtype and no attributes, never an
\* error, whatever follows; for Type 23 or 50 a payload under 4 bytes is an
\* error, otherwise Subtype is the second payload byte and the two reserved
\* bytes have no influence on the outcome.
C23_ParseDispatch ==
    (/\ last.op = "Parse"
     /\ ValidHeader(buf)
     /\ buf[1] \notin { CodeSuccess, CodeFailure })
        => /\ Declared(buf) = 4
                => last.kind = "ok" /\ last.pkt = HeaderOnly(buf)
           /\ Declared(buf) > 4 /\ buf[5] \notin { TypeAKA, TypeAKAPrime }
                => /\ last.kind = "ok"
                   /\ last.pkt = [HeaderOnly(buf) EXCEPT !.Type = buf[5]]
           /\ Declared(buf) > 4 /\ buf[5] \in { TypeAKA, TypeAKAPrime }
                => /\ Declared(buf) < 8 => last.kind = "err"
                   /\ Declared(buf) >= 8
                        => /\ last.kind = "ok"
                             => /\ last.pkt.Type = buf[5]
                                /\ last.pkt.Subtype = buf[6]
                           /\ Parse(ReservedCleared(buf)) = [kind |-> last.kind, pkt |-> last.pkt]

\* an AKA' Response with reserved bytes 170, 187 and one attribute
C23_Witness ==
    /\ last.op = "Parse"
    /\ last.kind = "ok"
    /\ buf[1] = CodeResponse
    /\ Declared(buf) = 12
    /\ buf[5] = TypeAKAPrime
    /\ buf[7] = 170
    /\ buf[8] = 187
    /\ last.pkt.Subtype = 5
    /\ Len(last.pkt.Attributes) = 1

\* a Request of Type 7 whose remaining bytes are no well-formed attribute
C23_WitnessOtherType ==
    /\ last.op = "Parse"
    /\ last.kind = "ok"
    /\ buf[1] = CodeRequest
    /\ Declared(buf) = 12
    /\ buf[5] = 7
    /\ buf[10] = 0
    /\ last.pkt = [HeaderOnly(buf) EXCEPT !.Type = 7]

\* an AKA' Request whose payload stops inside the method header
C23_WitnessShort ==
    /\ last.op = "Parse"
    /\ last.kind = "err"
    /\ ValidHeader(buf)
    /\ buf[1] = CodeRequest
    /\ Declared(buf) = 7
    /\ buf[5] = TypeAKAPrime

(***************************************************************************)
(* Attributes of fixed length in a Packet, checked under Spec              *)
(***************************************************************************)
\* a RAND, AUTN, NONCE_MT, NONCE_S or IV that is not 16 bytes long, or an AUTS
\* that is not 14 bytes long
BadFixedLength(a) ==
    CASE a.kind = "AtRand" -> Len(a.Rand) # 16
      [] a.kind = "AtAutn" -> Len(a.Autn) # 16
      [] a.kind = "AtNonceMt" -> Len(a.NonceMt) # 16
      [] a.kind = "AtNonceS" -> Len(a.NonceS) # 16
      [] a.kind = "AtIv" -> Len(a.IV) # 16
      [] a.kind = "AtAuts" -> Len(a.Auts) # 14
      [] OTHER -> FALSE

HasBadFixedLength(p) ==
    \E k \in 1..Len(p.Attributes) : BadFixedLength(p.Attributes[k])

\* the encoding of some attribute aborts before any attribute fails
PanicsFirst(p) ==
    \E j \in 1..Len(p.Attributes) :
        /\ Attr_Marshal(p.Attributes[j]).kind = "panic"
        /\ \A i \in 1..(j - 1) : Attr_Marshal(p.Attributes[i]).kind = "ok"

C24_WitnessSecond ==
    /\ last.op = "Marshal"
    /\ last.kind = "err"
    /\ old.Code \in { CodeRequest, CodeResponse }
    /\ Len(old.Attributes) = 2
    /\ Attr_Marshal(old.Attributes[1]).kind = "ok"
    /\ BadFixedLength(old.Attributes[2])

(***************************************************************************)
(* The block chain of the MPPE key encryptor, checked under MppeSpec       *)
(***************************************************************************)
\* block i (from 1) of 16 bytes of the sequence s
Block16(s, i) == SubSeq(s, 16 * (i - 1) + 1, 16 * i)

\* the ciphertext blocks of an output: what follows the 2-byte salt
CipherOf(out) == SubSeq(out, 3, Len(out))

\* b(i) for the output out: MD5(secret || requestAuthenticator || salt) for
\* the first block, MD5(secret || c(i-1)) after it
ChainKey(out, secret, reqAuth, i) ==
    IF i = 1
    THEN Md5(secret \o reqAuth \o SubSeq(out, 1, 2))
    ELSE Md5(secret \o Block16(CipherOf(out), i - 1))

\* the 1-byte key length, the key and zeros up to n bytes
PlainOf(key, n) == [k \in 1..n |-> IF k = 1 THEN Len(key)
                                   ELSE IF k <= 1 + Len(key) THEN key[k - 1] ELSE 0]

RECURSIVE Strides(_, _)
Strides(s, off) ==
    IF off >= Len(s) THEN << >>
    ELSE IF Len(s) - off < 2 THEN << >>
    ELSE IF s[off + 2] = 0 THEN << >>
    ELSE IF s[off + 2] * 4 > Len(s) - off THEN << >>
    ELSE << s[off + 2] * 4 >> \o Strides(s, off + s[off + 2] * 4)

RECURSIVE SumOf(_)
SumOf(ns) == IF ns = << >> THEN 0 ELSE Head(ns) + SumOf(Tail(ns))

\* C26: Parse terminates: each iteration of the attribute loop consumes at
\* least 4 bytes, so the loop runs at most a quarter of the stream's length
\* times; when Parse succeeds on an AKA/AKA' Request/Response the attribute
\* list has one entry per TLV of the declared payload, in wire order, the
\* declared lengths of the TLVs sum to the declared payload length minus the
\* 4-byte method header, and the type code of each entry is the type byte of
\* its TLV.
C26_LoopAndList ==
    (last.op = "Parse" /\ IsAkaFrame(buf))
        => /\ last.kind \in { "ok", "err" }
           /\ \A k \in 1..Len(Strides(AttrStream(buf), 0)) :
                 Strides(AttrStream(buf), 0)[k] >= 4
           /\ 4 * Len(Strides(AttrStream(buf), 0)) <= Len(AttrStream(buf))
           /\ last.kind = "ok"
                => /\ ~BadFraming(AttrStream(buf), 0)
                   /\ Len(last.pkt.Attributes) = Len(Tlvs(AttrStream(buf), 0))
                   /\ Len(last.pkt.Attributes) = Len(Strides(AttrStream(buf), 0))
                   /\ SumOf(Strides(AttrStream(buf), 0)) = Declared(buf) - 4 - 4
                   /\ \A k \in 1..Len(last.pkt.Attributes) :
                         /\ AttrTypeOf(last.pkt.Attributes[k])
                              = Tlvs(AttrStream(buf), 0)[k][1]
                         /\ Len(Tlvs(AttrStream(buf), 0)[k])
                              = 4 * Tlvs(AttrStream(buf), 0)[k][2]

\* two TLVs of different types, AT_RAND in front of an unknown type
C26_Witness ==
    /\ last.op = "Parse"
    /\ last.kind = "ok"
    /\ IsAkaFrame(buf)
    /\ Len(last.pkt.Attributes) = 2
    /\ AttrTypeOf(last.pkt.Attributes[1]) = AT_RAND
    /\ AttrTypeOf(last.pkt.Attributes[2]) = 200
    /\ Declared(buf) = 8 + 20 + 4

(***************************************************************************)
(* Totality of Parse, checked under Spec                                   *)
(***************************************************************************)
\* C27: Parse is total: for every buffer, also one whose declared Length is
\* 0, 1, 2 or 3, it returns either a Packet and no error or an error and no
\* Packet; it never aborts on a slice or index out of range.
C27_ParseTotal ==
    last.op = "Parse"
        => /\ last.kind \in { "ok", "err" }
           /\ last.kind = "ok" => last.pkt # NoPacket
           /\ last.kind = "err" => last.pkt = NoPacket

\* C27, from declared Length 4 on: Parse returns
C27_ParseTotalFromFour ==
    (last.op = "Parse" /\ (Len(buf) < 4 \/ Declared(buf) >= 4))
        => /\ last.kind \in { "ok", "err" }
           /\ last.kind = "ok" => last.pkt # NoPacket
           /\ last.kind = "err" => last.pkt = NoPacket

\* a buffer whose declared Length is 3: data[4:3] is out of range
C27_Aborts ==
    /\ last.op = "Parse"
    /\ last.kind = "panic"
    /\ Len(buf) >= 4
    /\ Declared(buf) = 3

(***************************************************************************)
(* CalculateAndSetMac on its error paths, checked under Spec               *)
(***************************************************************************)
\* C28: a CalculateAndSetMac call that returns an error (no AT_MAC attribute,
\* a Type that is neither AKA nor AKA', or a Marshal failure) leaves the
\* Packet as it was before the call, the value of AT_MAC included.
C28_ErrorLeavesPacket ==
    (last.op = "CalculateAndSetMac" /\ last.kind = "err") => pkt = old

\* C28, as the code does it: without AT_MAC the Packet is untouched; on the
\* other error paths the first AT_MAC is left as 16 zero bytes and nothing
\* else is changed
C28_ErrorLeavesZeroed ==
    (last.op = "CalculateAndSetMac" /\ last.kind = "err")
        => /\ FindMac(old) = 0 => pkt = old
           /\ FindMac(old) # 0 => pkt = MacZeroed(old)

\* an error for a Type that is neither AKA nor AKA': the MAC of the caller is
\* gone
C28_MacLost ==
    /\ last.op = "CalculateAndSetMac"
    /\ last.kind = "err"
    /\ old.Type \notin { TypeAKA, TypeAKAPrime }
    /\ FindMac(old) # 0
    /\ Len(MacOf(old)) = 16
    /\ MacOf(old) # Zeros(16)
    /\ MacOf(pkt) = Zeros(16)

(***************************************************************************)
(* Bytes behind the declared Length, checked under Spec                    *)
(***************************************************************************)
\* what may stand behind the declared Length
Trailers ==
    { << >>, << 0 >>, << 255, 255, 255, 255 >>, << 200, 1, 7, 8 >>, << 200, 0 >>,
      << AT_RAND, 5, 0, 0 >> \o Pattern(16, 1), << TypeAKA, 1, 0, 0 >> }

\* the first n bytes of b
Prefix(b, n) == SubSeq(b, 1, n)

\* a buffer that declares Length n, for n below 4, and agrees with b on its
\* first n bytes: the rest of its Code and Identifier bytes is free
ShortDeclared(b, n, c, id) ==
    << IF n >= 1 THEN b[1] ELSE c, IF n >= 2 THEN b[2] ELSE id, b[3], b[4] >>

\* C29: the result of Parse depends only on the first L bytes of the buffer, L
\* being the declared Length: every buffer that declares L and has the same
\* first L bytes gives the same outcome, the same Packet or the same failure,
\* so that no byte at index L or later reaches Type, Subtype or an attribute.
\* Below L = 4 the buffers that declare L all fail alike.
C29_TrailingBytesIgnored ==
    (last.op = "Parse" /\ Len(buf) >= 4 /\ Declared(buf) <= Len(buf))
        => \A t \in Trailers :
              /\ Declared(buf) >= 4
                   => /\ Parse(Prefix(buf, Declared(buf)) \o t).kind = last.kind
                      /\ Parse(Prefix(buf, Declared(buf)) \o t).pkt = last.pkt
              /\ Declared(buf) < 4
                   => \A c \in { CodeRequest, CodeSuccess }, id \in { 0, 255 } :
                         /\ Parse(ShortDeclared(buf, Declared(buf), c, id) \o t).kind
                              = last.kind
                         /\ Parse(ShortDeclared(buf, Declared(buf), c, id) \o t).pkt
                              = last.pkt

\* a Request parsed from a buffer that goes on behind its declared Length
\* with a well-formed attribute
C29_Witness ==
    /\ last.op = "Parse"
    /\ last.kind = "ok"
    /\ IsAkaFrame(buf)
    /\ Declared(buf) = 12
    /\ Len(buf) = 16
    /\ SubSeq(buf, 13, 16) = << 200, 1, 7, 8 >>
    /\ Len(last.pkt.Attributes) = 1

(***************************************************************************)
(* Parsed packets encoded again, checked under Spec                        *)
(***************************************************************************)
\* C30 as stated: for every buffer b that Parse accepts, Marshal(Parse(b))
\* succeeds, is no longer than the declared Length of b, and
\* Parse(Marshal(Parse(b))) equals Parse(b) in Code, Identifier, Type, Subtype
\* and attribute list.
C30_ParsedIsCanonical ==
    (last.op = "Parse" /\ last.kind = "ok")
        => /\ Marshal(last.pkt).kind = "ok"
           /\ Len(Marshal(last.pkt).bytes) <= Declared(buf)
           /\ Parse(Marshal(last.pkt).bytes) = ParseOk(last.pkt)

\* Marshal writes the method header and the attributes of p
EmitsPayload(p) ==
    p.Code \in { CodeRequest, CodeResponse } /\ p.Type \in { TypeAKA, TypeAKAPrime }

\* C30: for every buffer b that Parse accepts, Marshal(Parse(b)) succeeds and
\* is no longer than the declared Length of b; Parse(Marshal(Parse(b))) equals
\* Parse(b) when Parse(b) is a Request or Response of Type AKA or AKA' or has
\* no Type, and otherwise is the Packet with the Code and Identifier of
\* Parse(b) alone.
C30_ParsedReencodes ==
    (last.op = "Parse" /\ last.kind = "ok")
        => /\ Marshal(last.pkt).kind = "ok"
           /\ Len(Marshal(last.pkt).bytes) <= Declared(buf)
           /\ EmitsPayload(last.pkt) \/ last.pkt.Type = 0
                => Parse(Marshal(last.pkt).bytes) = ParseOk(last.pkt)
           /\ ~(EmitsPayload(last.pkt) \/ last.pkt.Type = 0)
                => /\ Marshal(last.pkt).bytes
                        = << last.pkt.Code, last.pkt.Identifier, 0, 4 >>
                   /\ Parse(Marshal(last.pkt).bytes)
                        = ParseOk(Hdr(last.pkt.Code, last.pkt.Identifier, 0, 0))

\* an AT_MAC of 6 words whose reserved bytes are not zero: Parse keeps 16
\* bytes of it and the Packet is encoded in 4 bytes less
C30_Witness ==
    /\ last.op = "Parse"
    /\ last.kind = "ok"
    /\ IsAkaFrame(buf)
    /\ Declared(buf) = 8 + 24
    /\ buf[9] = AT_MAC
    /\ buf[11] # 0
    /\ Len(last.pkt.Attributes) = 1
    /\ Len(Marshal(last.pkt).bytes) = 8 + 20
    /\ Parse(Marshal(last.pkt).bytes) = ParseOk(last.pkt)

====
